---- MODULE Spec2Model ----
(***************************************************************************)
(* The VM autoscaler: the scaling loop of internal/cmd/run/run.go, the     *)
(* instance-group operations of internal/google/mig.go and regionalMig.go  *)
(* and the Elasticsearch drain of internal/elasticsearch/elasticsearch.go. *)
(* The compute backend (target size, member list), the cluster service     *)
(* (exclusion setting, shard placement), the condition oracle and the      *)
(* clock are the environment the loop talks to.                            *)
(***************************************************************************)
EXTENDS Integers, Sequences, FiniteSets, TLC

(***************************************************************************)
(* Strings the code splits and joins are sequences of one-character        *)
(* strings, so that Split, Join and the regular-expression match are       *)
(* computed and not assumed.                                               *)
(***************************************************************************)
Comma == ","

N1 == <<"e", "1">>

N10 == <<"e", "1", "0">>

\* The instance names the provider may give to the members of the group: one
\* is a prefix of the other.
InstanceNames == {N1, N10}

EmptyStr == << >>

RECURSIVE SplitFrom(_, _, _)
\* strings.Split(s, sep) for a one-character separator: cur is the piece
\* being read, i the next position.
SplitFrom(s, i, cur) ==
    IF i > Len(s) THEN <<cur>>
    ELSE IF s[i] = Comma THEN <<cur>> \o SplitFrom(s, i + 1, EmptyStr)
    ELSE SplitFrom(s, i + 1, Append(cur, s[i]))

Split(s) == SplitFrom(s, 1, EmptyStr)

RECURSIVE Join(_)
\* strings.Join(parts, ",")
Join(parts) ==
    IF Len(parts) = 0 THEN EmptyStr
    ELSE IF Len(parts) = 1 THEN parts[1]
    ELSE parts[1] \o <<Comma>> \o Join(Tail(parts))

\* regexp.MatchString of a pattern made of literal characters only (instance
\* names are lower-case letters, digits and hyphens): the pattern occurs
\* somewhere in s.
MatchString(re, s) ==
    \E i \in 0..(Len(s) - Len(re)) :
        \A k \in 1..Len(re) : s[i + k] = re[k]

Range(seq) == {seq[i] : i \in 1..Len(seq)}

(***************************************************************************)
(* The persistent setting cluster.routing.allocation.exclude._name: either *)
(* absent (null) or a string.                                              *)
(***************************************************************************)
NoSetting == [set |-> FALSE, val |-> EmptyStr]

Setting(s) == [set |-> TRUE, val |-> s]

\* The value GetSettings decodes into currentExcludes: "" unless the setting
\* is a string.
CurrentExcludes(e) == IF e.set THEN e.val ELSE EmptyStr

\* The node names the cluster keeps shards away from.
ExcludedNames(e) ==
    IF CurrentExcludes(e) = EmptyStr THEN {} ELSE Range(Split(CurrentExcludes(e)))

(***************************************************************************)
(* The effective scaling limits (getMIGScalingLimits).                     *)
(***************************************************************************)
\* scaleDownThreshold is fixed by the code.
ScaleDownThreshold == 1

Digits == <<"0", "1", "2", "3", "4", "5", "6">>

\* strconv.Itoa of a weekday number 0..6
Itoa(d) == <<Digits[d + 1]>>

RECURSIVE TrimSpace(_)
\* strings.TrimSpace
TrimSpace(s) ==
    IF Len(s) = 0 THEN s
    ELSE IF Head(s) = " " THEN TrimSpace(Tail(s))
    ELSE IF s[Len(s)] = " " THEN TrimSpace(SubSeq(s, 1, Len(s) - 1))
    ELSE s

\* What the function returns: the four limits, or the process ended by
\* log.Fatalf.
Limits(mn, mx, up, fatal) ==
    [minSize |-> mn, maxSize |-> mx, scaleUp |-> up,
     scaleDown |-> ScaleDownThreshold, fatal |-> fatal]

BaseLimits(c) == Limits(c.MinSize, c.MaxSize, c.ScaleUpThreshold, FALSE)

\* An override taken as written, zero fields included.
WithDefaults_NoInheritance(c, o) == o

\* An override with its zero fields replaced by the base values.
WithDefaults(c, o) ==
    [o EXCEPT !.ScaleUpThreshold = IF @ = 0 THEN c.ScaleUpThreshold ELSE @,
              !.MinSize = IF @ = 0 THEN c.MinSize ELSE @,
              !.MaxSize = IF @ = 0 THEN c.MaxSize ELSE @]

\* A window that includes its start instant.
InWindow_HalfOpen(tod, start, end) == tod >= start /\ tod < end

\* currentTime.After(startTime) && currentTime.Before(endTime)
InWindow(tod, start, end) == tod > start /\ tod < end

\* The decision taken for one day token of one override: "next" goes on with
\* the following token, anything else is the function's result.
\* HoursUTC is the list strings.Split(HoursUTC, "-") gives, each part with the
\* outcome of time.Parse on it (<< >> for the empty string).
DayDecision(c, o, t, day) ==
    IF TrimSpace(day) # Itoa(t.wd) THEN [next |-> TRUE, res |-> BaseLimits(c)]
    ELSE IF o.HoursUTC = << >>
        THEN [next |-> FALSE, res |-> Limits(o.MinSize, o.MaxSize, o.ScaleUpThreshold, FALSE)]
    ELSE IF Len(o.HoursUTC) # 2
        THEN [next |-> FALSE, res |-> Limits(c.MinSize, c.MaxSize, c.ScaleUpThreshold, TRUE)]
    ELSE IF ~o.HoursUTC[1].ok \/ ~o.HoursUTC[2].ok
        THEN [next |-> FALSE, res |-> BaseLimits(c)]
    ELSE IF InWindow(t.tod, o.HoursUTC[1].t, o.HoursUTC[2].t)
        THEN [next |-> FALSE, res |-> Limits(o.MinSize, o.MaxSize, o.ScaleUpThreshold, FALSE)]
    ELSE [next |-> TRUE, res |-> BaseLimits(c)]

RECURSIVE ScanFrom(_, _, _, _)
\* The two nested loops, from day token j of override i on.
ScanFrom(c, t, i, j) ==
    LET ovs == c.AdvancedCustomScalingConfiguration IN
    IF i > Len(ovs) THEN BaseLimits(c)
    ELSE LET o == WithDefaults(c, ovs[i])
             days == Split(ovs[i].Days)
         IN IF j > Len(days) THEN ScanFrom(c, t, i + 1, 1)
            ELSE LET d == DayDecision(c, o, t, days[j])
                 IN IF d.next THEN ScanFrom(c, t, i, j + 1) ELSE d.res

\* A resolution against the time the process started.
getMIGScalingLimits_AtStart(c, t) == ScanFrom(c, [wd |-> 1, tod |-> 0], 1, 1)

getMIGScalingLimits(c, t) == ScanFrom(c, t, 1, 1)

(***************************************************************************)
(* The exclusion list computed by the two cluster-settings steps.          *)
(***************************************************************************)
\* What a GetSettings response decodes to: the transport may fail ("fail"),
\* the service may answer with an error document, which decodes to settings
\* without the exclusion key ("errorBody"), or with the settings ("ok").
GetResponses == {"ok", "fail", "errorBody"}

Decoded(resp, e) == IF resp = "ok" THEN CurrentExcludes(e) ELSE EmptyStr

\* A settings update that writes the list back without the node.
ExcludeValue_ListKept(cur, nodeName) ==
    [put |-> TRUE, val |-> IF cur = EmptyStr THEN NoSetting ELSE Setting(cur)]

\* A settings update that appends the node without looking for it.
ExcludeValue_NoShortCircuit(cur, nodeName) ==
    IF cur # EmptyStr THEN [put |-> TRUE, val |-> Setting(cur \o <<Comma>> \o nodeName)]
    ELSE [put |-> TRUE, val |-> Setting(nodeName)]

\* updateClusterSettings, from the decoded currentExcludes: no write when the
\* node is already listed, otherwise the list with the node appended.
ExcludeValue(cur, nodeName) ==
    IF cur # EmptyStr /\ nodeName \in Range(Split(cur))
        THEN [put |-> FALSE, val |-> NoSetting]
    ELSE IF cur # EmptyStr
        THEN [put |-> TRUE, val |-> Setting(cur \o <<Comma>> \o nodeName)]
    ELSE [put |-> TRUE, val |-> Setting(nodeName)]

\* A clear that removes nothing.
Remaining_All(names, nodeName) == names

\* The names of a list other than nodeName, in order.
Remaining(names, nodeName) == SelectSeq(names, LAMBDA n : n # nodeName)

\* ClearElasticsearchClusterSettings, from the decoded currentExcludes: no
\* write when nothing is excluded, otherwise the list without the node, null
\* when no name remains.
ClearValue(cur, nodeName) ==
    IF cur = EmptyStr THEN [put |-> FALSE, val |-> NoSetting]
    ELSE LET rest == Remaining(Split(cur), nodeName)
         IN [put |-> TRUE,
             val |-> IF Len(rest) > 0 THEN Setting(Join(rest)) ELSE NoSetting]

(***************************************************************************)
(* Shard rebalancing (RebalanceShards).                                    *)
(***************************************************************************)
DigitValue(ch) == CHOOSE d \in 0..6 : Digits[d + 1] = ch

IsDigit(ch) == \E d \in 0..6 : Digits[d + 1] = ch

RECURSIVE DecimalValue(_)
DecimalValue(s) ==
    IF Len(s) = 0 THEN 0
    ELSE 10 * DecimalValue(SubSeq(s, 1, Len(s) - 1)) + DigitValue(s[Len(s)])

\* strconv.Atoi of a string without a sign: the number, or an error.
Atoi(s) ==
    IF Len(s) > 0 /\ \A i \in 1..Len(s) : IsDigit(s[i])
        THEN [ok |-> TRUE, v |-> DecimalValue(s)]
    ELSE [ok |-> FALSE, v |-> 0]

\* A division that rounds down.
CeilDiv_Floor(a, b) == a \div b

\* int(math.Ceil(float64(a) / float64(b))) for b > 0
CeilDiv(a, b) == (a + b - 1) \div b

\* A calculation that applies a maxReplicas of zero as a cap.
calculateDesiredReplicas_CapsAtZero(nodeCount, totalPrimaries, maxReplicas, minReplicas) ==
    IF totalPrimaries <= 0 \/ nodeCount <= 0 THEN minReplicas
    ELSE LET desired == CeilDiv(nodeCount, totalPrimaries) - 1
             floored == IF desired < minReplicas THEN minReplicas ELSE desired
         IN IF floored > maxReplicas THEN maxReplicas ELSE floored

calculateDesiredReplicas(nodeCount, totalPrimaries, maxReplicas, minReplicas) ==
    IF totalPrimaries <= 0 \/ nodeCount <= 0 THEN minReplicas
    ELSE LET desired == CeilDiv(nodeCount, totalPrimaries) - 1
             floored == IF desired < minReplicas THEN minReplicas ELSE desired
         IN IF maxReplicas > 0 /\ floored > maxReplicas THEN maxReplicas ELSE floored

RECURSIVE UniqueFrom(_, _)
\* The index names of the alias listing, each once, in order of appearance.
UniqueFrom(names, seen) ==
    IF Len(names) = 0 THEN << >>
    ELSE IF Head(names) \in seen THEN UniqueFrom(Tail(names), seen)
    ELSE <<Head(names)>> \o UniqueFrom(Tail(names), seen \cup {Head(names)})

\* getIndicesForAliases: _cat/aliases for the configured aliases, then
\* _cat/indices for the index names they point to.
getIndicesForAliases(all, aliases) ==
    LET listing == SelectSeq(all, LAMBDA x : x.Aliases \cap Range(aliases) # {})
        indexNames == UniqueFrom([i \in 1..Len(listing) |-> listing[i].Index], {})
    IN IF Len(aliases) = 0 \/ Len(indexNames) = 0 THEN << >>
       ELSE SelectSeq(all, LAMBDA x : x.Index \in Range(indexNames))

RECURSIVE TotalPrimaries(_)
\* The sum of the primaries that parse.
TotalPrimaries(filtered) ==
    IF Len(filtered) = 0 THEN 0
    ELSE (IF Atoi(Head(filtered).Pri).ok THEN Atoi(Head(filtered).Pri).v ELSE 0)
         + TotalPrimaries(Tail(filtered))

\* An update loop that does not compare the replica count with the desired
\* one.
NeedsUpdate_Always(idx, desired) == Atoi(idx.Rep).ok

\* The loop over the indices of RebalanceShards for index i: whether
\* updateIndexReplicas is reached, whether it sends the PUT, whether it
\* returns no error.
NeedsUpdate(idx, desired) == Atoi(idx.Rep).ok /\ Atoi(idx.Rep).v # desired

\* An updateIndexReplicas that does not look at the debug flag.
SendsReplicaPut_Always(debugMode) == TRUE

\* updateIndexReplicas: the PUT is sent unless in debug mode.
SendsReplicaPut(debugMode) == ~debugMode

(***************************************************************************)
(* State.                                                                  *)
(***************************************************************************)
VARIABLES
    cfg,          \* the configuration read at start-up (ctx.Config)
    now,          \* the clock: weekday and instant of the day (UTC)
    targetSize,   \* compute backend: the group's target size
    members,      \* compute backend: the managed instances of the group
    excl,         \* cluster: the exclusion setting
    shardNodes,   \* cluster: the nodes hosting at least one shard
    pc,           \* where the loop is
    victim,       \* instanceToRemove of the removal attempt in progress
    desiredSize,  \* desiredSize of the removal attempt in progress
    minSize,      \* minSize resolved by the removal attempt in progress
    polls,        \* shard-placement polls made by the drain wait in progress
    indices,      \* cluster: the indices, as _cat/indices lists them
    modified,     \* what the last RebalanceShards returned
    pre,          \* group and exclusion list when the removal attempt began
    sendFailed,   \* some notification of this iteration could not be sent
    trace         \* the calls, notifications and sleeps of this iteration

vars == <<cfg, now, targetSize, members, excl, shardNodes, pc, victim,
          desiredSize, minSize, polls, indices, modified, pre, sendFailed, trace>>

\* The drain deadline, counted in ticks of the 2-second poll ticker.
MaxPolls == 2

\* The clock moves over the instants 0..LastInstant of one weekday, a Monday.
LastInstant == 2

StartTime == [wd |-> 1, tod |-> 0]

NoNode == EmptyStr

Ev(op, n, m, node) == [op |-> op, n |-> n, m |-> m, node |-> node]

E0(op) == Ev(op, 0, 0, NoNode)

\* The target size read and the limits resolved at the start of a step.
SizeAndLimits(size, lim) ==
    <<Ev("GetTargetSize", size, 0, NoNode),
      [op |-> "Limits", n |-> lim.minSize, m |-> lim.maxSize, node |-> NoNode,
       up |-> lim.scaleUp, down |-> lim.scaleDown]>>

\* A settings read that did not fail: n is 1 when it gave the settings, 0
\* when it gave an error document.
GotSettings(resp) == Ev("GetSettings", IF resp = "ok" THEN 1 ELSE 0, 0, NoNode)

Ops(t) == {t[i].op : i \in 1..Len(t)}

\* An override raising the floor to 2 on day 1 strictly between instants 0
\* and 2.
RaiseFloor ==
    [Days |-> <<"1">>, HoursUTC |-> <<[ok |-> TRUE, t |-> 0], [ok |-> TRUE, t |-> 2]>>,
     MinSize |-> 2, MaxSize |-> 0, ScaleUpThreshold |-> 0]

\* The configurations of the model: every combination of dry-run, zonal or
\* regional group, cluster configured or not, notifier configured or not,
\* without overrides; and the fully configured zonal ones with the override.
Configs ==
    [DebugMode : BOOLEAN, Zone : BOOLEAN, ElasticsearchURL : BOOLEAN,
     WebhookURL : BOOLEAN, MinSize : {1}, MaxSize : {2}, ScaleUpThreshold : {1},
     AdvancedCustomScalingConfiguration : {<< >>}]
    \cup
    [DebugMode : BOOLEAN, Zone : {TRUE}, ElasticsearchURL : {TRUE},
     WebhookURL : {TRUE}, MinSize : {1}, MaxSize : {2}, ScaleUpThreshold : {1},
     AdvancedCustomScalingConfiguration : {<<RaiseFloor>>}]

NoAttempt == [targetSize |-> 0, members |-> {}, excl |-> NoSetting]

\* The shard-rebalancing settings of the configuration.
Rebalancing == [Aliases |-> <<"logs">>, MaxReplicas |-> 0, MinReplicas |-> 0]

Index(name, status, pri, rp, aliases) ==
    [Index |-> name, Status |-> status, Pri |-> pri, Rep |-> rp, Aliases |-> aliases]

\* The indices the cluster may hold when the process starts.
IndexSets ==
    {<<Index("a", "open", <<"1">>, <<"0">>, {"logs"}),
       Index("b", "open", <<"1">>, <<"1">>, {"logs"})>>}

Init ==
    /\ cfg \in Configs
    /\ now = StartTime
    /\ members \in SUBSET InstanceNames
    /\ targetSize = Cardinality(members)
    /\ excl \in {NoSetting, Setting(N1)}
    /\ shardNodes \in SUBSET members
    /\ pc \in {"floor", "rebalance"}
    /\ indices \in IndexSets
    /\ modified = 0
    /\ victim = NoNode
    /\ desiredSize = 0
    /\ minSize = 0
    /\ polls = 0
    /\ pre = NoAttempt
    /\ sendFailed = FALSE
    /\ trace = << >>

(***************************************************************************)
(* The loop of RunCommand.                                                 *)
(***************************************************************************)
Notify(op, n, m, node) == IF cfg.WebhookURL THEN <<Ev(op, n, m, node)>> ELSE << >>

\* An error branch that sleeps the default cooldown.
ErrorTail_Cooldown == Notify("NotifyError", 0, 0, NoNode) \o <<E0("SleepDefault")>>

\* Every error branch of the loop: log, notify if configured, sleep the retry
\* interval, continue.
ErrorTail == Notify("NotifyError", 0, 0, NoNode) \o <<E0("SleepRetry")>>

\* The notifications a step can send.
Notifications ==
    {"NotifyError", "NotifyFloor", "NotifyAdded", "NotifyRemoved", "NotifyDrainTimeout"}

\* NotifySlack returns an error or not for each notification the step has
\* just sent; the step only logs it.
Sends ==
    sendFailed' \in
        IF \E k \in (Len(trace) + 1)..Len(trace') : trace'[k].op \in Notifications
            THEN {sendFailed, TRUE}
        ELSE {sendFailed}

\* A floor check that returns the notification's error to the loop.
FloorCheckResult_SendError(failed) == IF failed THEN "sleep" ELSE "upCondition"

\* What follows the floor check after its resize: it returns nil whatever
\* the notification gave, and the loop goes on to the up-condition.
FloorCheckResult(failed) == "upCondition"

backend == <<targetSize, members>>

cluster == <<excl, shardNodes>>

attempt == <<victim, desiredSize, minSize, polls, pre>>

rebalance == <<indices, modified>>

\* A floor check that resizes to the scale-up step.
FloorTarget_Step(lim) == lim.scaleUp

\* The size the floor check resizes to.
FloorTarget(lim) == lim.minSize

\* A maximum check that refuses to reach the maximum.
AtCeiling_Inclusive(desired, maxSize) == desired >= maxSize

\* The maximum check of the scale-up.
AtCeiling(desired, maxSize) == desired > maxSize

\* A minimum check that lets the group go one below the minimum.
BelowMinimum_OffByOne(desired, mn) == desired < mn - 1

\* The minimum check of the scale-down.
BelowMinimum(desired, mn) == desired < mn

\* A removal that ignores the drain's error and goes on to the deletion.
AfterDrainError_Ignored == "delete"

\* Where the loop goes when the drain returned an error: the removal returns
\* it and the iteration ends with the retry sleep.
AfterDrainError == "sleep"

\* CheckMIGMinimumSize / CheckRegionalMIGMinimumSize and the loop's handling
\* of its error.
CheckMIGMinimumSize ==
    /\ pc = "floor"
    /\ \E okGet \in BOOLEAN, okResize \in BOOLEAN :
        LET lim == getMIGScalingLimits(cfg, now) IN
        IF ~okGet THEN
            /\ trace' = trace \o <<E0("GetTargetSizeErr")>> \o ErrorTail
            /\ pc' = "sleep"
            /\ Sends
            /\ UNCHANGED targetSize
        ELSE IF lim.fatal THEN
            /\ trace' = trace \o <<Ev("GetTargetSize", targetSize, 0, NoNode), E0("Fatal")>>
            /\ pc' = "exited"
            /\ UNCHANGED <<targetSize, sendFailed>>
        ELSE IF targetSize < lim.minSize /\ ~cfg.DebugMode /\ ~okResize THEN
            /\ trace' = trace \o SizeAndLimits(targetSize, lim)
                              \o <<Ev("ResizeErr", FloorTarget(lim), 0, NoNode)>> \o ErrorTail
            /\ pc' = "sleep"
            /\ Sends
            /\ UNCHANGED targetSize
        ELSE IF targetSize < lim.minSize /\ ~cfg.DebugMode THEN
            /\ trace' = trace \o SizeAndLimits(targetSize, lim)
                              \o <<Ev("Resize", FloorTarget(lim), 0, NoNode)>>
                              \o Notify("NotifyFloor", lim.minSize, 0, NoNode)
                              \o <<E0("SleepDefault")>>
            /\ targetSize' = FloorTarget(lim)
            /\ Sends
            /\ pc' = FloorCheckResult(sendFailed' /\ ~sendFailed)
        ELSE
            /\ trace' = trace \o SizeAndLimits(targetSize, lim)
            /\ pc' = "upCondition"
            /\ UNCHANGED <<targetSize, sendFailed>>
    /\ UNCHANGED <<cfg, rebalance, now, members, cluster, attempt>>

\* A loop that goes on to the next condition after a condition error.
AfterConditionError_FallsThrough == "downCondition"

\* Where the loop goes when a condition query returned an error: the retry
\* sleep, then the next iteration.
AfterConditionError == "sleep"

\* GetPrometheusCondition for a query: true, false or an error.
Conditions == {"true", "false", "error"}

GetUpCondition ==
    /\ pc = "upCondition"
    /\ \E r \in Conditions :
        /\ trace' = trace \o (IF r = "error" THEN <<E0("UpConditionErr")>> \o ErrorTail
                              ELSE <<Ev("UpCondition", IF r = "true" THEN 1 ELSE 0, 0, NoNode)>>)
        /\ pc' = CASE r = "error" -> AfterConditionError
                    [] r = "true" -> "addNode"
                    [] OTHER -> "downCondition"
    /\ UNCHANGED <<cfg, rebalance, now, backend, cluster, attempt>>
    /\ Sends

\* A loop that goes on to the down-condition after adding a node.
AfterScaleUp_FallsThrough == "downCondition"

\* Where the loop goes after a scale-up: it sleeps the default cooldown and
\* continues with the next iteration.
AfterScaleUp == "sleep"

\* A scale-up that adds one instance whatever the step.
ScaleUpTarget_ByOne(size, step) == size + 1

\* desiredSize of the scale-up: the size read plus the step.
ScaleUpTarget(size, step) == size + step

\* AddNodeToMIG / AddNodeToRegionalMIG and the loop's handling of the result.
AddNodeToMIG ==
    /\ pc = "addNode"
    /\ \E okGet \in BOOLEAN, okResize \in BOOLEAN :
        LET lim == getMIGScalingLimits(cfg, now)
            desired == ScaleUpTarget(targetSize, lim.scaleUp)
            got == SizeAndLimits(targetSize, lim)
        IN
        IF ~okGet THEN
            /\ trace' = trace \o <<E0("GetTargetSizeErr")>> \o ErrorTail
            /\ pc' = "sleep"
            /\ UNCHANGED targetSize
        ELSE IF lim.fatal THEN
            /\ trace' = trace \o <<Ev("GetTargetSize", targetSize, 0, NoNode), E0("Fatal")>>
            /\ pc' = "exited"
            /\ UNCHANGED targetSize
        ELSE IF AtCeiling(desired, lim.maxSize) THEN
            /\ trace' = trace \o got \o <<E0("SleepDefault")>>
            /\ pc' = "sleep"
            /\ UNCHANGED targetSize
        ELSE IF ~cfg.DebugMode /\ ~okResize THEN
            /\ trace' = trace \o got \o <<Ev("ResizeErr", desired, 0, NoNode)>> \o ErrorTail
            /\ pc' = "sleep"
            /\ UNCHANGED targetSize
        ELSE
            /\ trace' = trace \o got
                              \o (IF cfg.DebugMode THEN << >> ELSE <<Ev("Resize", desired, 0, NoNode)>>)
                              \o Notify("NotifyAdded", desired, lim.maxSize, NoNode)
                              \o <<E0("SleepDefault")>>
            /\ targetSize' = IF cfg.DebugMode THEN targetSize ELSE desired
            /\ pc' = AfterScaleUp
    /\ UNCHANGED <<cfg, rebalance, now, members, cluster, attempt>>
    /\ Sends

GetDownCondition ==
    /\ pc = "downCondition"
    /\ \E r \in Conditions :
        /\ trace' = trace \o (CASE r = "error" -> <<E0("DownConditionErr")>> \o ErrorTail
                                [] r = "true" -> <<Ev("DownCondition", 1, 0, NoNode)>>
                                [] OTHER -> <<Ev("DownCondition", 0, 0, NoNode), E0("SleepDefault")>>)
        /\ pc' = CASE r = "error" -> AfterConditionError
                    [] r = "true" -> "removeNode"
                    [] OTHER -> "sleep"
    /\ UNCHANGED <<cfg, rebalance, now, backend, cluster, attempt>>
    /\ Sends

\* The sleep that ends an iteration is over: the next iteration begins.
NextIteration ==
    /\ pc = "sleep"
    /\ pc' = "floor"
    /\ trace' = << >>
    /\ victim' = NoNode
    /\ desiredSize' = 0
    /\ minSize' = 0
    /\ polls' = 0
    /\ pre' = NoAttempt
    /\ sendFailed' = FALSE
    /\ UNCHANGED <<cfg, rebalance, now, backend, cluster>>

(***************************************************************************)
(* Scale-down: RemoveNodeFromMIG / RemoveNodeFromRegionalMIG with the      *)
(* drain of internal/elasticsearch, one action per call that can wait.     *)
(***************************************************************************)
\* A loop that sleeps the retry interval after a removal.
RemovedTail_Retry(desired, mn, node) ==
    (IF node # NoNode THEN Notify("NotifyRemoved", desired, mn, node) ELSE << >>)
        \o <<E0("SleepRetry")>>

\* A loop that sleeps the default cooldown after a removal.
RemovedTail_DefaultCooldown(desired, mn, node) ==
    (IF node # NoNode THEN Notify("NotifyRemoved", desired, mn, node) ELSE << >>)
        \o <<E0("SleepDefault")>>

\* The loop after a removal that returned no error: the notification when a
\* node was removed, then the scale-down cooldown.
RemovedTail(desired, mn, node) ==
    (IF node # NoNode THEN Notify("NotifyRemoved", desired, mn, node) ELSE << >>)
        \o <<E0("SleepScaleDown")>>

\* A selection that may name an instance outside the list.
Selectable_Any(names) == InstanceNames

\* The names rand.Int can pick: an index below len(instanceNames), so any
\* element of the list read.
Selectable(names) == names

\* The start of the removal: target size, limits, the minimum check and the
\* choice of the instance to remove.
SelectInstanceToRemove ==
    /\ pc = "removeNode"
    /\ \E okGet \in BOOLEAN, okList \in BOOLEAN, v \in Selectable(members) \cup {NoNode} :
        LET lim == getMIGScalingLimits(cfg, now)
            desired == targetSize - lim.scaleDown
            got == SizeAndLimits(targetSize, lim)
        IN
        /\ v = NoNode <=> (~okGet \/ lim.fatal \/ BelowMinimum(desired, lim.minSize)
                           \/ ~okList \/ members = {})
        /\ IF ~okGet THEN
               /\ trace' = trace \o <<E0("GetTargetSizeErr")>> \o ErrorTail
               /\ pc' = "sleep"
               /\ UNCHANGED attempt
           ELSE IF lim.fatal THEN
               /\ trace' = trace \o <<Ev("GetTargetSize", targetSize, 0, NoNode), E0("Fatal")>>
               /\ pc' = "exited"
               /\ UNCHANGED attempt
           ELSE IF BelowMinimum(desired, lim.minSize) THEN
               /\ trace' = trace \o got \o <<E0("AtMinimum")>> \o RemovedTail(-1, -1, NoNode)
               /\ pc' = "sleep"
               /\ UNCHANGED attempt
           ELSE IF ~okList THEN
               /\ trace' = trace \o got \o <<E0("ListMembersErr")>> \o ErrorTail
               /\ pc' = "sleep"
               /\ UNCHANGED attempt
           ELSE IF members = {} THEN
               /\ trace' = trace \o got \o <<E0("ListMembers"), E0("NoMembers")>> \o ErrorTail
               /\ pc' = "sleep"
               /\ UNCHANGED attempt
           ELSE
               /\ trace' = trace \o got \o <<Ev("ListMembers", Cardinality(members), 0, v)>>
               /\ pc' = IF cfg.ElasticsearchURL THEN "drain" ELSE "delete"
               /\ victim' = v
               /\ desiredSize' = desired
               /\ minSize' = lim.minSize
               /\ polls' = 0
               /\ pre' = [targetSize |-> targetSize, members |-> members, excl |-> excl]
    /\ UNCHANGED <<cfg, rebalance, now, backend, cluster>>
    /\ Sends

\* DrainElasticsearchNode up to the wait: updateClusterSettings.
UpdateClusterSettings ==
    /\ pc = "drain"
    /\ \E resp \in GetResponses, okPut \in BOOLEAN :
        LET x == ExcludeValue(Decoded(resp, excl), victim)
            write == x.put /\ ~cfg.DebugMode
        IN
        IF resp = "fail" THEN
            /\ trace' = trace \o <<E0("GetSettingsErr"), E0("DrainError")>> \o ErrorTail
            /\ pc' = AfterDrainError
            /\ UNCHANGED excl
        ELSE IF write /\ ~okPut THEN
            /\ trace' = trace \o <<GotSettings(resp), Ev("PutSettingsErr", 0, 0, victim),
                                   E0("DrainError")>> \o ErrorTail
            /\ pc' = AfterDrainError
            /\ UNCHANGED excl
        ELSE
            /\ trace' = trace \o <<GotSettings(resp)>>
                              \o (IF write THEN <<Ev("PutSettings", 0, 0, victim)>> ELSE << >>)
                              \o (IF cfg.DebugMode THEN <<E0("DrainOK")>> ELSE << >>)
            /\ excl' = IF write THEN x.val ELSE excl
            /\ pc' = IF cfg.DebugMode THEN "delete" ELSE "wait"
    /\ UNCHANGED <<cfg, rebalance, now, backend, shardNodes, attempt>>
    /\ Sends

\* What a _cat/shards request gives: the placements, a transport error, or a
\* body that is empty or does not decode.
ShardResponses == {"ok", "fail", "badBody"}

\* A poll that never finds the node.
NodeFound_Missed(nodeName, nodes) == FALSE

\* nodeFound of waitForNodeRemoval: some shard's node matches the name.
NodeFound(nodeName, nodes) == \E n \in nodes : MatchString(nodeName, n)

\* waitForNodeRemoval, the ticker case: one poll of the shard placement.
PollShards ==
    /\ pc = "wait"
    /\ polls < MaxPolls
    /\ \E resp \in ShardResponses :
        IF resp # "ok" THEN
            /\ trace' = trace \o <<E0("CatShardsErr"), E0("DrainError")>> \o ErrorTail
            /\ pc' = AfterDrainError
            /\ UNCHANGED polls
        ELSE IF NodeFound(victim, shardNodes) THEN
            /\ trace' = trace \o <<Ev("CatShards", 1, 0, victim)>>
            /\ polls' = polls + 1
            /\ UNCHANGED pc
        ELSE
            /\ trace' = trace \o <<Ev("CatShards", 0, 0, victim), E0("DrainOK")>>
            /\ pc' = "delete"
            /\ UNCHANGED polls
    /\ UNCHANGED <<cfg, rebalance, now, backend, cluster, victim, desiredSize, minSize, pre>>
    /\ Sends

\* A wait without deadline.
DeadlineSet_Never == FALSE

\* The wait runs under context.WithTimeout: the deadline comes.
DeadlineSet == TRUE

\* waitForNodeRemoval, the deadline case: notify, clear the exclusion, fail.
\* A poll that is still in flight at the deadline is cancelled, so the
\* deadline can come after any number of polls.
DrainTimeout ==
    /\ pc = "wait"
    /\ DeadlineSet
    /\ \E resp \in GetResponses, okPut \in BOOLEAN :
        LET x == ClearValue(Decoded(resp, excl), victim)
            told == <<E0("Deadline")>> \o Notify("NotifyDrainTimeout", 0, 0, victim)
        IN
        /\ IF resp = "fail" THEN
               /\ trace' = trace \o told \o <<E0("GetSettingsErr"), E0("DrainError")>> \o ErrorTail
               /\ UNCHANGED excl
           ELSE IF x.put /\ ~okPut THEN
               /\ trace' = trace \o told \o <<GotSettings(resp), Ev("PutSettingsErr", 0, 0, victim),
                                              E0("DrainError")>> \o ErrorTail
               /\ UNCHANGED excl
           ELSE
               /\ trace' = trace \o told \o <<GotSettings(resp)>>
                                 \o (IF x.put THEN <<Ev("PutSettings", 0, 0, victim)>> ELSE << >>)
                                 \o <<E0("DrainTimeoutError")>> \o ErrorTail
               /\ excl' = IF x.put THEN x.val ELSE excl
        /\ pc' = AfterDrainError
    /\ UNCHANGED <<cfg, rebalance, now, backend, shardNodes, attempt>>
    /\ Sends

\* A removal that goes on to clear the exclusion after a failed deletion.
AfterDeleteError_Clears == "clear"

\* Where the loop goes when DeleteInstances failed: the removal returns the
\* error and the iteration ends with the retry sleep.
AfterDeleteError == "sleep"

\* A request that names every instance of the list read.
DeleteRequest_WholeList(instanceToRemove) == pre.members

\* The instances the delete request names: the one selected.
DeleteRequest(instanceToRemove) == {instanceToRemove}

\* DeleteInstances and the 90-second wait that follows it.
DeleteInstance ==
    /\ pc = "delete"
    /\ \E okDelete \in BOOLEAN :
        IF ~cfg.DebugMode /\ ~okDelete THEN
            /\ trace' = trace \o <<Ev("DeleteErr", 0, 0, victim)>> \o ErrorTail
            /\ pc' = AfterDeleteError
            /\ UNCHANGED <<backend, shardNodes>>
        ELSE
            /\ trace' = trace \o (IF cfg.DebugMode THEN << >>
                                  ELSE <<Ev("Delete", 0, 0, victim), E0("Settle")>>)
                              \o (IF cfg.ElasticsearchURL THEN << >>
                                  ELSE RemovedTail(desiredSize, minSize, victim))
            /\ pc' = IF cfg.ElasticsearchURL THEN "clear" ELSE "sleep"
            /\ members' = IF cfg.DebugMode THEN members
                           ELSE members \ DeleteRequest(victim)
            /\ targetSize' = IF cfg.DebugMode THEN targetSize
                              ELSE targetSize - Cardinality(members \cap DeleteRequest(victim))
            /\ shardNodes' = IF cfg.DebugMode THEN shardNodes
                              ELSE shardNodes \ DeleteRequest(victim)
    /\ UNCHANGED <<cfg, rebalance, now, excl, attempt>>
    /\ Sends

\* ClearElasticsearchClusterSettings after the deletion, and what the two
\* variants do with its error.
ClearClusterSettings ==
    /\ pc = "clear"
    /\ \E resp \in GetResponses, okPut \in BOOLEAN :
        LET x == ClearValue(Decoded(resp, excl), victim)
            write == x.put /\ ~cfg.DebugMode
            failed == IF resp = "fail" THEN <<E0("GetSettingsErr")>>
                      ELSE <<GotSettings(resp), Ev("PutSettingsErr", 0, 0, victim)>>
        IN
        IF resp = "fail" \/ (write /\ ~okPut) THEN
            /\ trace' = trace \o failed \o (IF cfg.Zone THEN << >> ELSE ErrorTail)
            /\ pc' = IF cfg.Zone THEN "undrain" ELSE "sleep"
            /\ UNCHANGED excl
        ELSE
            /\ trace' = trace \o <<GotSettings(resp)>>
                              \o (IF write THEN <<Ev("PutSettings", 0, 0, victim)>> ELSE << >>)
                              \o RemovedTail(desiredSize, minSize, victim)
            /\ excl' = IF write THEN x.val ELSE excl
            /\ pc' = "sleep"
    /\ UNCHANGED <<cfg, rebalance, now, backend, shardNodes, attempt>>
    /\ Sends

\* UndrainElasticsearchNode, called by the zonal variant when the clear after
\* the deletion failed: the node is taken out of the exclusion list and its
\* return to the cluster is awaited; the removal reports an error either way.
UndrainElasticsearchNode ==
    /\ pc = "undrain"
    /\ \E resp \in GetResponses, okPut \in BOOLEAN :
        LET x == ClearValue(Decoded(resp, excl), victim)
            write == resp # "fail" /\ x.put /\ ~cfg.DebugMode
        IN
        /\ trace' = trace \o (IF resp = "fail" THEN <<E0("GetSettingsErr")>>
                              ELSE IF write /\ ~okPut
                                  THEN <<GotSettings(resp), Ev("PutSettingsErr", 0, 0, victim)>>
                              ELSE IF write
                                  THEN <<GotSettings(resp), Ev("PutSettings", 0, 0, victim)>>
                              ELSE <<GotSettings(resp)>>)
                          \o <<E0("UndrainReturn")>> \o ErrorTail
        /\ excl' = IF write /\ okPut THEN x.val ELSE excl
        /\ pc' = "sleep"
    /\ UNCHANGED <<cfg, rebalance, now, backend, shardNodes, attempt>>
    /\ Sends

(***************************************************************************)
(* The rebalance entry point.                                              *)
(***************************************************************************)
\* The update loop from index i on: the indices after it, given the set of
\* index names whose PUT the cluster refuses.
UpdateFrom(all, names, desired, refused) ==
    [i \in 1..Len(all) |->
        IF all[i].Index \in names /\ NeedsUpdate(all[i], desired)
           /\ SendsReplicaPut(cfg.DebugMode) /\ all[i].Index \notin refused
            THEN [all[i] EXCEPT !.Rep = <<Digits[desired + 1]>>]
        ELSE all[i]]

\* The events of the update loop, in index order: the replica count read
\* for the index, if it parses, then the PUT if one is sent.
RECURSIVE UpdateEvents(_, _, _)
UpdateEvents(filtered, desired, refused) ==
    IF Len(filtered) = 0 THEN << >>
    ELSE LET idx == Head(filtered)
             read == IF Atoi(idx.Rep).ok THEN <<Ev("Replicas", Atoi(idx.Rep).v, 0, <<idx.Index>>)>>
                     ELSE << >>
             ev == IF ~NeedsUpdate(idx, desired) \/ ~SendsReplicaPut(cfg.DebugMode) THEN << >>
                   ELSE IF idx.Index \in refused THEN <<Ev("PutReplicasErr", desired, 0, <<idx.Index>>)>>
                   ELSE <<Ev("PutReplicas", desired, 0, <<idx.Index>>)>>
         IN read \o ev \o UpdateEvents(Tail(filtered), desired, refused)

\* modified: the indices whose updateIndexReplicas returned no error.
ModifiedCount(filtered, desired, refused) ==
    Cardinality({i \in 1..Len(filtered) :
        /\ NeedsUpdate(filtered[i], desired)
        /\ ~(SendsReplicaPut(cfg.DebugMode) /\ filtered[i].Index \in refused)})

RECURSIVE ShardCopies(_)
\* The shard copies of the listed indices: primaries times one plus
\* replicas, summed.
ShardCopies(filtered) ==
    IF Len(filtered) = 0 THEN 0
    ELSE Atoi(Head(filtered).Pri).v * (1 + Atoi(Head(filtered).Rep).v)
         + ShardCopies(Tail(filtered))

\* The sets of nodes _cat/shards can report for the listed indices: a row
\* per shard copy, each copy on at most one node, so no more nodes than
\* copies when every count of the listing is a number.
HostingSets(filtered) ==
    IF \A i \in 1..Len(filtered) : Atoi(filtered[i].Pri).ok /\ Atoi(filtered[i].Rep).ok
        THEN {h \in SUBSET shardNodes : Cardinality(h) <= ShardCopies(filtered)}
    ELSE SUBSET shardNodes

\* A count of every node of the cluster that hosts a shard.
NodeCount_WholeCluster(hosting) == Cardinality(shardNodes)

\* getNodeCountForIndices: the distinct nodes of the rows returned for the
\* resolved indices.
NodeCount(hosting) == Cardinality(hosting)

\* One invocation of RebalanceShards. hosting is the set of nodes that
\* _cat/shards reports for the resolved indices.
RebalanceShards ==
    /\ pc = "rebalance"
    /\ \E okResolve \in BOOLEAN, okShards \in BOOLEAN,
          hosting \in HostingSets(getIndicesForAliases(indices, Rebalancing.Aliases)),
          refused \in SUBSET {indices[i].Index : i \in 1..Len(indices)} :
        LET filtered == getIndicesForAliases(indices, Rebalancing.Aliases)
            names == {filtered[i].Index : i \in 1..Len(filtered)}
            desired == calculateDesiredReplicas(NodeCount(hosting), TotalPrimaries(filtered),
                                               Rebalancing.MaxReplicas, Rebalancing.MinReplicas)
        IN
        IF ~okResolve \/ ~okShards \/ Len(filtered) = 0 THEN
            /\ trace' = <<E0("RebalanceReturn")>>
            /\ modified' = 0
            /\ UNCHANGED indices
        ELSE
            /\ trace' = <<Ev("Desired", desired, TotalPrimaries(filtered), NoNode)>>
                         \o UpdateEvents(filtered, desired, refused)
                         \o <<E0("RebalanceReturn")>>
            /\ modified' = ModifiedCount(filtered, desired, refused)
            /\ indices' = UpdateFrom(indices, names, desired, refused)
    /\ sendFailed' = FALSE
    /\ UNCHANGED <<cfg, now, backend, cluster, pc, attempt>>

(***************************************************************************)
(* The environment.                                                        *)
(***************************************************************************)
\* Time passes; after the last instant the same weekday comes round again.
Tick ==
    /\ now' = [now EXCEPT !.tod = IF @ < LastInstant THEN @ + 1 ELSE 0]
    /\ UNCHANGED <<cfg, rebalance, backend, cluster, pc, attempt, sendFailed, trace>>

\* The provider creates an instance the target size asks for.
CreateInstance ==
    /\ Cardinality(members) < targetSize
    /\ \E n \in InstanceNames \ members : members' = members \cup {n}
    /\ UNCHANGED <<cfg, rebalance, now, targetSize, cluster, pc, attempt, sendFailed, trace>>

\* The cluster places a shard on a node that is not excluded.
AllocateShard ==
    /\ \E n \in members \ (shardNodes \cup ExcludedNames(excl)) :
        shardNodes' = shardNodes \cup {n}
    /\ UNCHANGED <<cfg, rebalance, now, backend, excl, pc, attempt, sendFailed, trace>>

\* The cluster has moved every shard off an excluded node.
EvacuateNode ==
    /\ \E n \in shardNodes \cap ExcludedNames(excl) :
        shardNodes' = shardNodes \ {n}
    /\ UNCHANGED <<cfg, rebalance, now, backend, excl, pc, attempt, sendFailed, trace>>

Next ==
    \/ CheckMIGMinimumSize
    \/ GetUpCondition
    \/ AddNodeToMIG
    \/ GetDownCondition
    \/ SelectInstanceToRemove
    \/ UpdateClusterSettings
    \/ PollShards
    \/ DrainTimeout
    \/ DeleteInstance
    \/ ClearClusterSettings
    \/ UndrainElasticsearchNode
    \/ NextIteration
    \/ RebalanceShards
    \/ Tick
    \/ CreateInstance
    \/ AllocateShard
    \/ EvacuateNode

Spec == Init /\ [][Next]_vars

(***************************************************************************)
(* getMIGScalingLimits on its own, over a range of configurations.         *)
(***************************************************************************)
\* The weekdays of the clock: Monday and Tuesday.
Weekdays == {1, 2}

\* The values HoursUTC takes: absent; "0-2"; one part only; a first part
\* time.Parse rejects.
HourRanges ==
    {<< >>,
     <<[ok |-> TRUE, t |-> 0], [ok |-> TRUE, t |-> 2]>>,
     <<[ok |-> TRUE, t |-> 0]>>,
     <<[ok |-> FALSE, t |-> 0], [ok |-> TRUE, t |-> 2]>>}

\* The overrides a configuration may list: on "1", on "2" or on "2, 1"; each
\* limit either left at zero or set.
Overrides ==
    [Days : {<<"1">>, <<"2">>, <<"2", Comma, " ", "1">>},
     HoursUTC : HourRanges,
     MinSize : {0, 3}, MaxSize : {0, 4}, ScaleUpThreshold : {0, 2}]

OverrideLists ==
    {<< >>} \cup {<<a>> : a \in Overrides} \cup {<<a, b>> : a, b \in Overrides}

\* Base limits 1..2, step 1, with every list of at most two overrides.
PolicyConfigs ==
    [DebugMode : {FALSE}, Zone : {TRUE}, ElasticsearchURL : {TRUE},
     WebhookURL : {TRUE}, MinSize : {1}, MaxSize : {2}, ScaleUpThreshold : {1},
     AdvancedCustomScalingConfiguration : OverrideLists]

PolicyInit ==
    /\ cfg \in PolicyConfigs
    /\ now \in [wd : Weekdays, tod : 0..LastInstant]
    /\ members = {}
    /\ targetSize = 0
    /\ excl = NoSetting
    /\ shardNodes = {}
    /\ pc = "resolve"
    /\ indices \in IndexSets
    /\ modified = 0
    /\ victim = NoNode
    /\ desiredSize = 0
    /\ minSize = 0
    /\ polls = 0
    /\ pre = NoAttempt
    /\ sendFailed = FALSE
    /\ trace = << >>

\* One call of getMIGScalingLimits: it returns the limits, or log.Fatalf
\* ends the process.
Resolve ==
    /\ pc = "resolve"
    /\ LET lim == getMIGScalingLimits(cfg, now) IN
        IF lim.fatal THEN
            /\ trace' = <<E0("Fatal")>>
            /\ pc' = "exited"
        ELSE
            /\ trace' = <<[op |-> "Limits", n |-> lim.minSize, m |-> lim.maxSize,
                           node |-> NoNode, up |-> lim.scaleUp, down |-> lim.scaleDown]>>
            /\ pc' = "resolved"
    /\ UNCHANGED <<cfg, rebalance, now, backend, cluster, attempt, sendFailed>>

\* Time passes until the next call; after the last instant of a day the
\* other weekday begins.
Elapse ==
    /\ pc = "resolved"
    /\ now' = IF now.tod < LastInstant THEN [now EXCEPT !.tod = @ + 1]
              ELSE [wd |-> IF now.wd = 1 THEN 2 ELSE 1, tod |-> 0]
    /\ trace' = << >>
    /\ pc' = "resolve"
    /\ UNCHANGED <<cfg, rebalance, backend, cluster, attempt, sendFailed>>

PolicyNext ==
    \/ Resolve
    \/ Elapse

PolicySpec == PolicyInit /\ [][PolicyNext]_vars

(***************************************************************************)
(* RebalanceShards on its own, over a range of index listings.             *)
(***************************************************************************)
\* The listings _cat/indices may give: a and b open or closed, with 0 or 1
\* replica, under the alias or not; c open under the alias, with 1 replica or
\* a replica field that is not a number.
IndexGroups ==
    {<<Index("a", sa, <<"1">>, ra, aa), Index("b", sb, <<"1">>, rb, ab),
       Index("c", "open", <<"1">>, rc, {"logs"})>> :
        sa \in {"open", "close"}, sb \in {"open", "close"},
        ra \in {<<"0">>, <<"1">>}, rb \in {<<"0">>, <<"1">>}, rc \in {<<"1">>, <<"x">>},
        aa \in {{"logs"}, {}}, ab \in {{"logs"}, {}}}

RebalanceInit ==
    /\ cfg \in {c \in Configs : c.Zone /\ c.ElasticsearchURL /\ c.WebhookURL
                                /\ c.AdvancedCustomScalingConfiguration = << >>}
    /\ now = StartTime
    /\ members = InstanceNames
    /\ targetSize = Cardinality(members)
    /\ excl \in {NoSetting, Setting(N1)}
    /\ shardNodes \in SUBSET members
    /\ pc = "rebalance"
    /\ indices \in IndexGroups
    /\ modified = 0
    /\ victim = NoNode
    /\ desiredSize = 0
    /\ minSize = 0
    /\ polls = 0
    /\ pre = NoAttempt
    /\ sendFailed = FALSE
    /\ trace = << >>

RebalanceNext ==
    \/ RebalanceShards
    \/ AllocateShard
    \/ EvacuateNode

RebalanceSpec == RebalanceInit /\ [][RebalanceNext]_vars

(***************************************************************************)
(* DrainElasticsearchNode on its own, with the deadline timer running.     *)
(***************************************************************************)
DrainInit ==
    /\ cfg \in {c \in Configs : c.ElasticsearchURL /\ c.AdvancedCustomScalingConfiguration = << >>}
    /\ now = StartTime
    /\ members \in SUBSET InstanceNames
    /\ targetSize = Cardinality(members)
    /\ excl \in {NoSetting, Setting(N1)}
    /\ shardNodes \in SUBSET members
    /\ pc = "drain"
    /\ indices \in IndexSets
    /\ modified = 0
    /\ victim \in members
    /\ desiredSize = targetSize - ScaleDownThreshold
    /\ minSize = cfg.MinSize
    /\ polls = 0
    /\ pre = [targetSize |-> targetSize, members |-> members, excl |-> excl]
    /\ sendFailed = FALSE
    /\ trace = << >>

DrainNext ==
    \/ UpdateClusterSettings
    \/ PollShards
    \/ DrainTimeout
    \/ AllocateShard
    \/ EvacuateNode

\* The timer of context.WithTimeout fires once the deadline is reached: the
\* deadline case of the select is taken while the wait lasts.
DrainSpec == DrainInit /\ [][DrainNext]_vars /\ WF_vars(DrainTimeout)

(***************************************************************************)
(* updateClusterSettings called twice in succession for the same node.     *)
(***************************************************************************)
\* The exclusion settings the cluster may hold before the first call.
ExclusionSettings ==
    {NoSetting, Setting(N1), Setting(N10), Setting(N1 \o <<Comma>> \o N10),
     Setting(N10 \o <<Comma>> \o N1)}

ExcludeInit ==
    /\ cfg \in {c \in Configs : c.ElasticsearchURL /\ c.AdvancedCustomScalingConfiguration = << >>}
    /\ now = StartTime
    /\ members = InstanceNames
    /\ targetSize = Cardinality(members)
    /\ excl \in ExclusionSettings
    /\ shardNodes = {}
    /\ pc = "firstCall"
    /\ indices \in IndexSets
    /\ modified = 0
    /\ victim \in InstanceNames
    /\ desiredSize = 0
    /\ minSize = 0
    /\ polls = 0
    /\ pre = NoAttempt
    /\ sendFailed = FALSE
    /\ trace = << >>

\* One call of updateClusterSettings for the node; pre keeps the setting the
\* first call leaves behind.
updateClusterSettings ==
    /\ pc \in {"firstCall", "secondCall"}
    /\ \E resp \in GetResponses, okPut \in BOOLEAN :
        LET x == ExcludeValue(Decoded(resp, excl), victim)
            write == x.put /\ ~cfg.DebugMode
        IN
        IF resp = "fail" THEN
            /\ trace' = trace \o <<E0("GetSettingsErr")>>
            /\ UNCHANGED excl
        ELSE IF write /\ ~okPut THEN
            /\ trace' = trace \o <<GotSettings(resp), Ev("PutSettingsErr", 0, 0, victim)>>
            /\ UNCHANGED excl
        ELSE
            /\ trace' = trace \o <<GotSettings(resp)>>
                              \o (IF write THEN <<Ev("PutSettings", 0, 0, victim)>> ELSE << >>)
            /\ excl' = IF write THEN x.val ELSE excl
    /\ pre' = IF pc = "firstCall" THEN [pre EXCEPT !.excl = excl'] ELSE pre
    /\ pc' = IF pc = "firstCall" THEN "secondCall" ELSE "called"
    /\ UNCHANGED <<cfg, rebalance, now, backend, shardNodes, victim, desiredSize, minSize,
                   polls, sendFailed>>

ExcludeNext == updateClusterSettings

ExcludeSpec == ExcludeInit /\ [][ExcludeNext]_vars

(***************************************************************************)
(* filterIndices on its own: the index group resolved by name patterns.    *)
(***************************************************************************)
RECURSIVE GlobMatch(_, _)
\* A name pattern in which "*" stands for any run of characters.
GlobMatch(p, name) ==
    IF Len(p) = 0 THEN Len(name) = 0
    ELSE IF Head(p) = "*"
        THEN GlobMatch(Tail(p), name) \/ (Len(name) > 0 /\ GlobMatch(p, Tail(name)))
    ELSE Len(name) > 0 /\ Head(name) = Head(p) /\ GlobMatch(Tail(p), Tail(name))

\* A filter for which no index is a system index.
IsSystemIndex_Never(name) == FALSE

\* A system index: its name starts with ".".
IsSystemIndex(name) == Len(name) > 0 /\ Head(name) = "."

\* filterIndices: the open indices, without the system indices unless
\* includeSystem, that match one of the patterns, or all of them when no
\* pattern is given; in the order of the listing.
filterIndices(all, patterns, includeSystem) ==
    SelectSeq(all, LAMBDA x :
        /\ x.Status = "open"
        /\ includeSystem \/ ~IsSystemIndex(x.Index)
        /\ Len(patterns) = 0 \/ \E k \in DOMAIN patterns : GlobMatch(patterns[k], x.Index))

\* The index listing of TestFilterIndices, the names shortened: logs-1,
\* logs-2, metrics, .kib, .sec, closed (the closed one), other.
TestIndices ==
    <<Index(<<"l", "o", "g", "s", "-", "1">>, "open", <<"1">>, <<"1">>, {}),
      Index(<<"l", "o", "g", "s", "-", "2">>, "open", <<"1">>, <<"1">>, {}),
      Index(<<"m", "e", "t", "r", "i", "c", "s">>, "open", <<"2">>, <<"1">>, {}),
      Index(<<".", "k", "i", "b">>, "open", <<"1">>, <<"1">>, {}),
      Index(<<".", "s", "e", "c">>, "open", <<"1">>, <<"0">>, {}),
      Index(<<"c", "l", "o", "s", "e", "d">>, "close", <<"1">>, <<"1">>, {}),
      Index(<<"o", "t", "h", "e", "r">>, "open", <<"3">>, <<"1">>, {})>>

\* The listing with only the indices at the positions of keep.
Listing(keep) == SelectSeq(TestIndices, LAMBDA x : \E k \in keep : TestIndices[k] = x)

\* The pattern lists of the test (none, logs-*, logs-* and metrics-*, .*,
\* closed-*) and the pattern *.
PatternLists ==
    {<< >>,
     <<<<"l", "o", "g", "s", "-", "*">>>>,
     <<<<"l", "o", "g", "s", "-", "*">>, <<"m", "e", "t", "*">>>>,
     <<<<".", "*">>>>,
     <<<<"c", "l", "o", "s", "e", "d", "*">>>>,
     <<<<"*">>>>}

FilterInit ==
    /\ cfg \in {c \in Configs : c.Zone /\ c.ElasticsearchURL /\ c.WebhookURL /\ ~c.DebugMode
                                /\ c.AdvancedCustomScalingConfiguration = << >>}
    /\ now = StartTime
    /\ members = {}
    /\ targetSize = 0
    /\ excl = NoSetting
    /\ shardNodes = {}
    /\ pc = "filter"
    /\ indices \in {Listing(keep) : keep \in SUBSET DOMAIN TestIndices}
    /\ modified = 0
    /\ victim = NoNode
    /\ desiredSize = 0
    /\ minSize = 0
    /\ polls = 0
    /\ pre = NoAttempt
    /\ sendFailed = FALSE
    /\ \E ps \in PatternLists, sys \in BOOLEAN :
           trace = <<[op |-> "filterIndices", patterns |-> ps, includeSystem |-> sys]>>

\* The call returns the filtered listing.
FilterIndices ==
    /\ pc = "filter"
    /\ trace' = Append(trace, [op |-> "Return",
                               result |-> filterIndices(indices, trace[1].patterns,
                                                        trace[1].includeSystem)])
    /\ pc' = "filtered"
    /\ UNCHANGED <<cfg, rebalance, now, backend, cluster, attempt, sendFailed>>

FilterNext == FilterIndices

FilterSpec == FilterInit /\ [][FilterNext]_vars

(***************************************************************************)
(* calculateDesiredReplicas on its own, over a range of arguments.         *)
(***************************************************************************)
\* The largest node count, primary count and replica setting of the range.
MaxNodes == 6

MaxPrimaries == 4

MaxReplicaSetting == 3

\* The cases of TestCalculateDesiredReplicas: nodeCount, totalPrimaries,
\* maxReplicas, minReplicas.
TestCases ==
    {<<17, 45, 0, 1>>, <<100, 45, 0, 1>>, <<30, 320, 0, 1>>, <<700, 320, 0, 1>>,
     <<50, 10, 0, 1>>, <<100, 10, 3, 1>>, <<2, 500, 5, 1>>, <<5, 0, 5, 1>>,
     <<0, 45, 5, 1>>, <<10, 5, 0, 1>>, <<11, 5, 0, 1>>}

\* The arguments of a call: negative, zero and positive counts, every
\* pair of replica settings, and the cases of the test.
ReplicaInputs ==
    ((-1..MaxNodes) \X (-1..MaxPrimaries) \X (0..MaxReplicaSetting) \X (0..MaxReplicaSetting))
    \cup TestCases

\* A call with its arguments.
Call(a) ==
    [op |-> "calculateDesiredReplicas", n |-> a[1], m |-> a[2], node |-> NoNode,
     up |-> a[3], down |-> a[4]]

ReplicaInit ==
    /\ cfg \in {c \in Configs : c.Zone /\ c.ElasticsearchURL /\ c.WebhookURL /\ ~c.DebugMode
                                /\ c.AdvancedCustomScalingConfiguration = << >>}
    /\ now = StartTime
    /\ members = {}
    /\ targetSize = 0
    /\ excl = NoSetting
    /\ shardNodes = {}
    /\ pc = "calculate"
    /\ indices \in IndexSets
    /\ modified = 0
    /\ victim = NoNode
    /\ desiredSize = 0
    /\ minSize = 0
    /\ polls = 0
    /\ pre = NoAttempt
    /\ sendFailed = FALSE
    /\ \E a \in ReplicaInputs : trace = <<Call(a)>>

\* The call returns.
Calculate ==
    /\ pc = "calculate"
    /\ trace' = Append(trace, Ev("Return", calculateDesiredReplicas(trace[1].n, trace[1].m,
                                                                   trace[1].up, trace[1].down),
                                 0, NoNode))
    /\ pc' = "calculated"
    /\ UNCHANGED <<cfg, rebalance, now, backend, cluster, attempt, sendFailed>>

ReplicaNext == Calculate

ReplicaSpec == ReplicaInit /\ [][ReplicaNext]_vars

(***************************************************************************)
(* Properties.  trace holds the calls, notifications and sleeps of the     *)
(* iteration in progress, in order; pre the group and the exclusion list   *)
(* as they were when the removal attempt of the iteration began.           *)
(***************************************************************************)
\* The events after position i.
After(i) == SubSeq(trace, i + 1, Len(trace))

\* The positions where a condition was evaluated and found true.
TrueAt(op) == {i \in DOMAIN trace : trace[i].op = op /\ trace[i].n = 1}

\* The calls that change the group.
GroupCalls == {"Resize", "ResizeErr", "Delete", "DeleteErr"}

\* The calls that change the cluster.
ClusterCalls == {"PutSettings", "PutSettingsErr", "PutReplicas", "PutReplicasErr"}

\* A DeleteMember call at position i follows a poll of this attempt that
\* found no shard on the node, with no poll between the two.
AfterEmptyPoll(i) ==
    \E j \in 1..(i - 1) :
        /\ trace[j] = Ev("CatShards", 0, 0, trace[i].node)
        /\ \A k \in (j + 1)..(i - 1) : trace[k].op # "CatShards"

C2_TimeoutLeavesGroupAlone ==
    "Deadline" \in Ops(trace) =>
        /\ pc = "sleep"
        /\ trace[Len(trace)] = E0("SleepRetry")
        /\ \A i \in TrueAt("DownCondition") : Ops(After(i)) \cap GroupCalls = {}
        /\ targetSize = pre.targetSize
        /\ pre.members \subseteq members
        /\ victim \in members

\* The deadline elapsed after polls that found shards on the victim.
C2_Witness ==
    /\ "DrainTimeoutError" \in Ops(trace)
    /\ Ev("CatShards", 1, 0, victim) \in Range(trace)
    /\ pc = "sleep"

\* Every settings read of the iteration gave the settings, and no settings
\* call failed.
SettingsCallsSucceed ==
    /\ \A i \in DOMAIN trace : trace[i].op = "GetSettings" => trace[i].n = 1
    /\ Ops(trace) \cap {"GetSettingsErr", "PutSettingsErr"} = {}

DrainReturnedSuccess ==
    /\ pc = "delete"
    /\ cfg.ElasticsearchURL
    /\ ~cfg.DebugMode

\* C4, as stated: when the feed reports the victim absent the drain returns
\* success and, at that moment, the exclusion list no longer contains the
\* victim.
C4_Original ==
    DrainReturnedSuccess =>
        /\ trace[Len(trace)] = E0("DrainOK")
        /\ victim \notin ExcludedNames(excl)

\* C4, amended: when the feed reports the victim absent, after any number of
\* polls that reported it present, the drain returns success at once, and at
\* the moment it returns the exclusion list still contains the victim: the
\* drain does not clear it.
C4_DrainSuccessKeepsVictimExcluded ==
    /\ \A i \in DOMAIN trace :
           (trace[i].op = "CatShards" /\ trace[i].n = 0) =>
               /\ i < Len(trace)
               /\ trace[i + 1] = E0("DrainOK")
    /\ DrainReturnedSuccess =>
           /\ trace[Len(trace)] = E0("DrainOK")
           /\ trace[Len(trace) - 1] = Ev("CatShards", 0, 0, victim)
           /\ victim \in ExcludedNames(excl)

\* The drain returned success after polls that found the victim and one that
\* did not.
C4_Witness ==
    /\ DrainReturnedSuccess
    /\ Ev("CatShards", 1, 0, victim) \in Range(trace)
    /\ Ev("CatShards", 0, 0, victim) \in Range(trace)

IsPrefix(a, b) == Len(a) <= Len(b) /\ SubSeq(b, 1, Len(a)) = a

\* What the removal does after a drain that succeeded when every call
\* succeeds: the deletion, the settle delay, the clear of the exclusion, the
\* notification if a webhook is configured, the scale-down cooldown.
AfterDrainSuccess ==
    <<Ev("Delete", 0, 0, victim), E0("Settle"),
      Ev("GetSettings", 1, 0, NoNode), Ev("PutSettings", 0, 0, victim)>>
        \o (IF cfg.WebhookURL
                THEN <<Ev("NotifyRemoved", desiredSize, minSize, victim)>> ELSE << >>)
        \o <<E0("SleepScaleDown")>>

\* A call of the removal failed after position i, or a settings read gave an
\* error document.
FailedAfter(i) ==
    \E k \in (i + 1)..Len(trace) :
        \/ trace[k].op \in {"DeleteErr", "GetSettingsErr", "PutSettingsErr"}
        \/ trace[k].op = "GetSettings" /\ trace[k].n = 0

\* C5: outside dry-run, after a drain that succeeded and as long as no call
\* fails, the removal performs in this order and nothing else: DeleteMember of
\* the victim, the settle delay, the clear of the victim from the exclusion
\* list, the notification carrying (desired, minSize, victim) when a webhook
\* is configured, and the scale-down cooldown; the iteration ends there with
\* the target size at desired and the victim out of the exclusion list.
C5_OrderAfterDrainSuccess ==
    ~cfg.DebugMode =>
        \A i \in DOMAIN trace :
            (trace[i].op = "DrainOK" /\ ~FailedAfter(i)) =>
                /\ IsPrefix(After(i), AfterDrainSuccess)
                /\ pc \in {"delete", "clear", "sleep"}
                /\ pc = "delete" <=> After(i) = << >>
                /\ pc = "sleep" =>
                       /\ After(i) = AfterDrainSuccess
                       /\ targetSize = desiredSize
                       /\ victim \notin ExcludedNames(excl)

\* A removal went through after a drain that succeeded, and was notified.
C5_Witness ==
    /\ ~cfg.DebugMode
    /\ pc = "sleep"
    /\ "DrainOK" \in Ops(trace)
    /\ Ev("NotifyRemoved", desiredSize, minSize, victim) \in Range(trace)
    /\ trace[Len(trace)] = E0("SleepScaleDown")

\* C6: with the dry-run flag set no mutating call is issued, by the loop or by
\* the rebalance: no Resize, no DeleteMember, no cluster-settings PUT, no
\* replica update.
C6_DryRunIssuesNoMutation ==
    cfg.DebugMode => Ops(trace) \cap (GroupCalls \cup ClusterCalls) = {}

\* A dry-run removal went through the drain, the deletion step and the clear.
C6_Witness ==
    /\ cfg.DebugMode
    /\ cfg.ElasticsearchURL
    /\ pc = "sleep"
    /\ "DrainOK" \in Ops(trace)
    /\ "NotifyRemoved" \in Ops(trace)

\* The floor check of the iteration read a size below the minimum: the first
\* two events are its size and its limits.
FloorLow ==
    /\ Len(trace) >= 2
    /\ trace[1].op = "GetTargetSize"
    /\ trace[2].op = "Limits"
    /\ trace[1].n < trace[2].n

\* The events of a sequence other than the mutating calls.
Observed(t) == SelectSeq(t, LAMBDA e : e.op \notin GroupCalls \cup ClusterCalls)

\* What the reads, notifications and sleeps of an iteration with the flag off
\* always show: a size below the floor is followed by the floor notification
\* and the default cooldown unless the Resize failed; a drain returns success
\* only after a shard-placement poll; a removal that went through has slept
\* the settle delay.
LikeNonDryRun ==
    /\ (FloorLow /\ "ResizeErr" \notin Ops(trace)) =>
           IsPrefix(Notify("NotifyFloor", trace[2].n, 0, NoNode) \o <<E0("SleepDefault")>>,
                    Observed(After(2)))
    /\ \A i \in DOMAIN trace :
           trace[i].op = "DrainOK" => (i > 1 /\ trace[i - 1].op = "CatShards")
    /\ (pc = "sleep" /\ victim # NoNode /\ trace[Len(trace)] = E0("SleepScaleDown")) =>
           "Settle" \in Ops(trace)

\* The reference for C7: iterations with the flag off have that shape.
NonDryRunReference == ~cfg.DebugMode => LikeNonDryRun

\* C7, as stated: a dry-run iteration makes the same read-only queries,
\* including the shard-placement polls of the drain wait, and reaches the same
\* decisions, sleeps and notifications as the iteration with the flag off.
\* It fails: in dry-run the drain returns without polling, the floor check
\* neither notifies nor sleeps, and the settle delay is skipped.
C7_DryRunObservesTheSame == cfg.DebugMode => LikeNonDryRun

\* The up- or down-condition evaluations of the iteration.
ConditionOps == {"UpCondition", "UpConditionErr", "DownCondition", "DownConditionErr"}

\* C8, as stated: when the floor check reads a size below the minimum and
\* resizes, the iteration evaluates no condition and issues no further Resize
\* or DeleteMember.
C8_Original ==
    (FloorLow /\ ~cfg.DebugMode /\ trace[3].op = "Resize") =>
        /\ trace[3].n = trace[2].n
        /\ Ops(After(3)) \cap (ConditionOps \cup GroupCalls) = {}

\* C8, amended: outside dry-run, when the floor check reads a size below the
\* minimum it issues one Resize to exactly the minimum; if the Resize succeeds
\* it notifies when a webhook is configured, sleeps the default cooldown and
\* goes on, in the same iteration, to the up-condition; if it fails the
\* iteration ends with the error notification and the retry sleep.
C8_FloorResizeThenConditions ==
    (FloorLow /\ ~cfg.DebugMode) =>
        LET floored == Notify("NotifyFloor", trace[2].n, 0, NoNode) \o <<E0("SleepDefault")>>
            rest == After(3)
        IN
        /\ trace[3].op \in {"Resize", "ResizeErr"}
        /\ trace[3].n = trace[2].n
        /\ trace[3].op = "Resize" =>
               /\ IsPrefix(floored, rest)
               /\ \/ pc = "upCondition" /\ rest = floored
                  \/ /\ Len(rest) > Len(floored)
                     /\ rest[Len(floored) + 1].op \in {"UpCondition", "UpConditionErr"}
        /\ trace[3].op = "ResizeErr" => (rest = ErrorTail /\ pc = "sleep")

\* After a floor Resize the same iteration evaluated both conditions and
\* deleted a member.
C8_Witness ==
    /\ FloorLow
    /\ ~cfg.DebugMode
    /\ trace[3].op = "Resize"
    /\ "DownCondition" \in Ops(trace)
    /\ "Delete" \in Ops(trace)

C10_NoRemovalBelowMinimum ==
    /\ \A i \in TrueAt("DownCondition") :
           LET rest == After(i) IN
           (/\ Len(rest) >= 2
            /\ rest[1].op = "GetTargetSize"
            /\ rest[2].op = "Limits"
            /\ rest[1].n - rest[2].down < rest[2].n) =>
               /\ Ops(SubSeq(rest, 3, Len(rest))) \subseteq
                      {"AtMinimum", "SleepScaleDown", "SleepDefault"}
               /\ victim = NoNode
               /\ pre = NoAttempt
               /\ targetSize = rest[1].n
               /\ pc = "sleep"
    /\ pc = "delete" => targetSize - ScaleDownThreshold >= minSize
    /\ \A i \in DOMAIN trace :
           trace[i].op \in {"Delete", "DeleteErr"} =>
               (desiredSize >= minSize /\ pre.targetSize - ScaleDownThreshold >= minSize)

\* The down-condition was true with size 2 and minimum 2.
C10_Witness ==
    \E i \in TrueAt("DownCondition") :
        /\ Len(trace) >= i + 3
        /\ trace[i + 1] = Ev("GetTargetSize", 2, 0, NoNode)
        /\ trace[i + 2].op = "Limits"
        /\ trace[i + 2].n = 2
        /\ trace[i + 3] = E0("AtMinimum")

\* The scale-up at position i read its size and limits and found the desired
\* size above the maximum.
UpNoOpAt(i) ==
    /\ Len(trace) >= i + 2
    /\ trace[i + 1].op = "GetTargetSize"
    /\ trace[i + 2].op = "Limits"
    /\ trace[i + 1].n + trace[i + 2].up > trace[i + 2].m

\* The removal at position i read its size and limits and found the desired
\* size below the minimum.
DownNoOpAt(i) ==
    /\ Len(trace) >= i + 2
    /\ trace[i + 1].op = "GetTargetSize"
    /\ trace[i + 2].op = "Limits"
    /\ trace[i + 1].n - trace[i + 2].down < trace[i + 2].n

\* C11, as stated: after a down-condition no-op the loop sleeps the default
\* cooldown.
C11_Original ==
    \A i \in TrueAt("DownCondition") :
        DownNoOpAt(i) => trace[Len(trace)] = E0("SleepDefault")

\* C11, amended: after an up-condition no-op the loop sleeps the default
\* cooldown; after a down-condition no-op it sleeps the scale-down cooldown,
\* the sleep that also follows a removal; neither sleeps the retry interval.
C11_NoOpCooldowns ==
    /\ \A i \in TrueAt("UpCondition") :
           UpNoOpAt(i) => (After(i + 2) = <<E0("SleepDefault")>> /\ pc = "sleep")
    /\ \A i \in TrueAt("DownCondition") :
           DownNoOpAt(i) =>
               /\ After(i + 2) = <<E0("AtMinimum"), E0("SleepScaleDown")>>
               /\ pc = "sleep"

\* A down-condition no-op at size 1 with minimum 1 has been slept.
C11_Witness ==
    \E i \in TrueAt("DownCondition") :
        /\ DownNoOpAt(i)
        /\ trace[i + 1].n = 1
        /\ trace[Len(trace)] = E0("SleepScaleDown")

\* C12: when the up- or the down-condition query returns an error the
\* iteration ends there: the error notification if a webhook is configured,
\* the retry sleep, then a new iteration; nothing is issued after the error,
\* the process does not exit, and after an up-condition error the
\* down-condition is not evaluated.
C12_ConditionErrorRetries ==
    \A i \in DOMAIN trace :
        trace[i].op \in {"UpConditionErr", "DownConditionErr"} =>
            /\ After(i) = ErrorTail
            /\ pc = "sleep"
            /\ ENABLED NextIteration
            /\ trace[i].op = "UpConditionErr" =>
                   Ops(trace) \cap {"DownCondition", "DownConditionErr"} = {}

\* An up-condition error after a floor resize.
C12_Witness ==
    /\ "UpConditionErr" \in Ops(trace)
    /\ "Resize" \in Ops(trace)
    /\ trace[Len(trace)] = E0("SleepRetry")

\* The events of a provider or cluster call that failed.
FailedCalls ==
    {"GetTargetSizeErr", "ResizeErr", "ListMembersErr", "DeleteErr",
     "PutSettingsErr", "GetSettingsErr", "CatShardsErr"}

\* The notifications of a step that went through and the cooldown sleeps.
SuccessPath ==
    {"NotifyFloor", "NotifyAdded", "NotifyRemoved", "SleepDefault", "SleepScaleDown"}

\* C13: after a failed provider call (target-size read, Resize of the floor
\* check or of the scale-up, member listing, DeleteMember, cluster-settings
\* update, and also a failed settings read or shard poll) the iteration sends
\* no success notification and takes no cooldown sleep; it ends with the
\* retry sleep and the next iteration can start; the process does not exit.
C13_FailedCallRetries ==
    \A i \in DOMAIN trace :
        trace[i].op \in FailedCalls =>
            /\ Ops(After(i)) \cap SuccessPath = {}
            /\ pc \in {"sleep", "undrain"}
            /\ pc = "sleep" =>
                   /\ trace[Len(trace)] = E0("SleepRetry")
                   /\ ENABLED NextIteration
            /\ pc = "undrain" => ENABLED UndrainElasticsearchNode

\* A scale-up Resize failed after the floor check had resized.
C13_Witness ==
    /\ pc = "sleep"
    /\ \E i \in DOMAIN trace :
           /\ trace[i].op = "ResizeErr"
           /\ "UpCondition" \in Ops(SubSeq(trace, 1, i))
           /\ "NotifyFloor" \in Ops(SubSeq(trace, 1, i))

\* C14: when DeleteMember fails after the drain succeeded, the iteration ends
\* with the error branch and nothing else: no clear of the exclusion, no
\* second DeleteMember; the victim is still a member, the target size is
\* what it was, and the victim is still in the exclusion list.
C14_FailedDeleteLeavesVictimExcluded ==
    \A i \in DOMAIN trace :
        (trace[i].op = "DeleteErr" /\ "DrainOK" \in Ops(trace)) =>
            /\ After(i) = ErrorTail
            /\ pc = "sleep"
            /\ Cardinality({k \in DOMAIN trace : trace[k].op \in {"Delete", "DeleteErr"}}) = 1
            /\ victim \in members
            /\ targetSize = pre.targetSize
            /\ victim \in ExcludedNames(excl)

\* The deletion failed after a drain that had to wait for the evacuation, the
\* victim not being excluded before.
C14_Witness ==
    /\ Ev("DeleteErr", 0, 0, victim) \in Range(trace)
    /\ Ev("CatShards", 1, 0, victim) \in Range(trace)
    /\ "DrainOK" \in Ops(trace)
    /\ victim \notin ExcludedNames(pre.excl)

\* What the code does right after each notification, whatever Send returned.
StepAfter(op) ==
    CASE op = "NotifyError"        -> {"SleepRetry"}
      [] op = "NotifyFloor"        -> {"SleepDefault"}
      [] op = "NotifyAdded"        -> {"SleepDefault"}
      [] op = "NotifyRemoved"      -> {"SleepScaleDown"}
      [] op = "NotifyDrainTimeout" -> {"GetSettings", "GetSettingsErr"}

\* C15: in an iteration where a notification could not be sent, every
\* notification is still followed by the same step as when it is sent: the
\* retry sleep after an error notice, the default cooldown after the floor
\* and scale-up notices, the scale-down cooldown after the removal notice,
\* the rollback of the exclusion after the drain-timeout notice; the floor
\* check's cooldown is followed by the up-condition, and every other sleep
\* ends the iteration.
C15_FailedSendChangesNothing ==
    sendFailed =>
        \A i \in DOMAIN trace :
            trace[i].op \in Notifications =>
                /\ i < Len(trace)
                /\ trace[i + 1].op \in StepAfter(trace[i].op)
                /\ trace[i].op = "NotifyFloor" =>
                       IF i + 1 = Len(trace) THEN pc = "upCondition"
                       ELSE trace[i + 2].op \in {"UpCondition", "UpConditionErr"}
                /\ trace[i].op \in {"NotifyError", "NotifyAdded", "NotifyRemoved"} =>
                       /\ i + 1 = Len(trace)
                       /\ pc = "sleep"

\* The floor notification was the only one of the iteration and failed, and
\* the up-condition has been evaluated since.
C15_Witness ==
    /\ sendFailed
    /\ Ops(trace) \cap Notifications = {"NotifyFloor"}
    /\ "UpCondition" \in Ops(trace)

\* The calls of the removal path: member listing, drain, poll, deletion,
\* rollback.
RemovalOps ==
    {"ListMembers", "ListMembersErr", "GetSettings", "GetSettingsErr", "PutSettings",
     "PutSettingsErr", "CatShards", "CatShardsErr", "Deadline", "Delete", "DeleteErr"}

\* Both conditions were evaluated and found false.
BothFalse ==
    /\ \E i \in DOMAIN trace : trace[i] = Ev("UpCondition", 0, 0, NoNode)
    /\ \E i \in DOMAIN trace : trace[i] = Ev("DownCondition", 0, 0, NoNode)

\* C16, as stated: an iteration in which both conditions evaluate false
\* issues no mutating call.
C16_Original ==
    BothFalse => Ops(trace) \cap (GroupCalls \cup ClusterCalls) = {}

\* C16, amended: once the up-condition has evaluated true the iteration
\* neither evaluates the down-condition nor lists, drains or deletes; once
\* both have evaluated false nothing is issued after the up-condition
\* and the iteration ends with the default cooldown (the floor check before
\* them may have resized the group to the minimum).
C16_UpConditionFirst ==
    /\ \A i \in TrueAt("UpCondition") :
           /\ Ops(trace) \cap {"DownCondition", "DownConditionErr"} = {}
           /\ Ops(trace) \cap RemovalOps = {}
           /\ pc \in {"addNode", "sleep", "exited"}
    /\ BothFalse =>
           \E i \in DOMAIN trace :
               /\ trace[i] = Ev("UpCondition", 0, 0, NoNode)
               /\ After(i) = <<Ev("DownCondition", 0, 0, NoNode), E0("SleepDefault")>>
               /\ pc = "sleep"
               /\ ENABLED NextIteration

\* A true up-condition has added an instance.
C16_Witness ==
    /\ TrueAt("UpCondition") # {}
    /\ "Resize" \in Ops(After(CHOOSE i \in TrueAt("UpCondition") : TRUE))
    /\ pc = "sleep"

(***************************************************************************)
(* Properties of getMIGScalingLimits, checked under PolicySpec.            *)
(***************************************************************************)
\* The limits the last call returned.
Resolved == pc = "resolved"

Result == trace[1]

Listed == cfg.AdvancedCustomScalingConfiguration

\* The weekday is one of the override's day tokens.
OnDay(o) == \E k \in DOMAIN Split(o.Days) : TrimSpace(Split(o.Days)[k]) = Itoa(now.wd)

\* The hour range is absent, or has two parts that are both times.
WellFormed(o) ==
    \/ o.HoursUTC = << >>
    \/ Len(o.HoursUTC) = 2 /\ o.HoursUTC[1].ok /\ o.HoursUTC[2].ok

\* The override applies now: its weekday matches and the time is after the
\* start and before the end of its range, if it has one.
Applies(o) ==
    /\ OnDay(o)
    /\ WellFormed(o)
    /\ o.HoursUTC # << >> => (now.tod > o.HoursUTC[1].t /\ now.tod < o.HoursUTC[2].t)

\* The override's day matches and its hour range is malformed.
Malformed(o) == OnDay(o) /\ ~WellFormed(o)

\* The limits of an override, zero fields taken from the base.
Inherited(o) ==
    [n |-> IF o.MinSize = 0 THEN cfg.MinSize ELSE o.MinSize,
     m |-> IF o.MaxSize = 0 THEN cfg.MaxSize ELSE o.MaxSize,
     up |-> IF o.ScaleUpThreshold = 0 THEN cfg.ScaleUpThreshold ELSE o.ScaleUpThreshold]

Base == [n |-> cfg.MinSize, m |-> cfg.MaxSize, up |-> cfg.ScaleUpThreshold]

Returned == [n |-> Result.n, m |-> Result.m, up |-> Result.up]

\* No override before position i has a matching day and a malformed range.
NoneMalformedBefore(i) == \A j \in 1..(i - 1) : ~Malformed(Listed[j])

\* C17: the call returns the limits of the first listed override that
\* applies (its weekday matches and its hour range, if present, contains the
\* time), each zero field taken from the base, whatever later overrides say;
\* an override without hour range applies all day; when none applies the
\* base limits are returned.  Stated for the calls in which no override that
\* precedes the first applying one has a matching day with a malformed hour
\* range, and with the hour range as the open interval the code tests.
C17_FirstMatchWithInheritance ==
    Resolved =>
        /\ \A i \in DOMAIN Listed :
               (/\ Applies(Listed[i])
                /\ \A j \in 1..(i - 1) : ~Applies(Listed[j])
                /\ NoneMalformedBefore(i))
               => Returned = Inherited(Listed[i])
        /\ ((\A i \in DOMAIN Listed : ~Applies(Listed[i]))
            /\ NoneMalformedBefore(Len(Listed) + 1))
               => Returned = Base

\* The second of two applying overrides is ignored, and the first one's zero
\* maximum is taken from the base.
C17_Witness ==
    /\ Resolved
    /\ Len(Listed) = 2
    /\ Applies(Listed[1]) /\ Applies(Listed[2])
    /\ Listed[1].HoursUTC # << >> /\ Listed[2].HoursUTC = << >>
    /\ Listed[1].MaxSize = 0 /\ Listed[2].MaxSize # 0
    /\ Listed[1].ScaleUpThreshold # Listed[2].ScaleUpThreshold
    /\ Returned = Inherited(Listed[1])

\* The listed override has the range 0-2 on the current weekday.
OneWindowToday ==
    /\ Len(Listed) = 1
    /\ OnDay(Listed[1])
    /\ Listed[1].HoursUTC = <<[ok |-> TRUE, t |-> 0], [ok |-> TRUE, t |-> 2]>>
    /\ Listed[1].MinSize # 0

\* C18, as stated: the override applies at exactly the start instant of its
\* range.
C18_Original ==
    (Resolved /\ OneWindowToday /\ now.tod = 0) => Returned = Inherited(Listed[1])

\* C18, amended: the hour range is the open interval (start, end): on a
\* matching weekday the override applies at every instant after start and
\* before end, and applies neither at exactly the start instant nor at
\* exactly the end instant, where the base limits are returned.
C18_OpenInterval ==
    (Resolved /\ OneWindowToday) =>
        /\ (now.tod > 0 /\ now.tod < 2) => Returned = Inherited(Listed[1])
        /\ now.tod \in {0, 2} => Returned = Base

\* A call at exactly the start instant returned the base limits.
C18_Witness ==
    /\ Resolved
    /\ OneWindowToday
    /\ now.tod = 0
    /\ Returned = Base
    /\ Returned # Inherited(Listed[1])

\* The first override with a matching day has a malformed hour range, and no
\* override before it applies.
MalformedFirst ==
    \E i \in DOMAIN Listed :
        /\ Malformed(Listed[i])
        /\ \A j \in 1..(i - 1) : ~OnDay(Listed[j])

\* C19: no call ends the process, and a call that meets a malformed hour
\* range (one part only, or a part that is not a time) returns the base
\* limits.
C19_ResolveNeverExits ==
    /\ pc # "exited"
    /\ (Resolved /\ MalformedFirst) => Returned = Base

\* What the code does keep of C19: a range of two parts one of which is not a
\* time gives the base limits.
UnparsableGivesBase ==
    (\E i \in DOMAIN Listed :
        /\ Malformed(Listed[i])
        /\ Len(Listed[i].HoursUTC) = 2
        /\ \A j \in 1..(i - 1) : ~OnDay(Listed[j]))
    => (Resolved /\ Returned = Base) \/ pc = "resolve"

\* The configuration meets the precondition of C20: base minimum at most base
\* maximum, and for every override with both limits set, its minimum at most
\* its maximum.
LimitsOrdered ==
    /\ cfg.MinSize <= cfg.MaxSize
    /\ \A i \in DOMAIN Listed :
           (Listed[i].MinSize # 0 /\ Listed[i].MaxSize # 0) =>
               Listed[i].MinSize <= Listed[i].MaxSize

\* C20: with the limits ordered in the base and in every override that sets
\* both, the returned minimum never exceeds the returned maximum.
C20_MinAtMostMax ==
    (Resolved /\ LimitsOrdered) => Result.n <= Result.m

(***************************************************************************)
(* Properties of calculateDesiredReplicas, checked under ReplicaSpec.      *)
(***************************************************************************)
Calculated == pc = "calculated"

\* The least q with q * d >= n, for n > 0 and d > 0.
Ceiling(n, d) == CHOOSE q \in 1..n : q * d >= n /\ (q - 1) * d < n

\* x brought into [lo, hi], hi = 0 meaning no upper end.
Clamped(x, lo, hi) ==
    LET capped == IF hi > 0 /\ x > hi THEN hi ELSE x
    IN IF capped < lo THEN lo ELSE capped

\* C21: the call returns minReplicas when totalPrimaries <= 0 or nodeCount <=
\* 0, and otherwise ceil(nodeCount / totalPrimaries) - 1 brought into
\* [minReplicas, maxReplicas], maxReplicas = 0 meaning no upper end; the
\* cases of the test give 1, 2, 1, 2, 4, 3, 1, 1, 1, 1, 2.  Stated for
\* maxReplicas >= 0 and, when maxReplicas > 0, minReplicas <= maxReplicas.
C21_DesiredReplicas ==
    Calculated =>
        LET nodeCount == trace[1].n
            totalPrimaries == trace[1].m
            maxReplicas == trace[1].up
            minReplicas == trace[1].down
            got == trace[2].n
        IN
        /\ (totalPrimaries <= 0 \/ nodeCount <= 0) => got = minReplicas
        /\ (totalPrimaries > 0 /\ nodeCount > 0 /\ (maxReplicas = 0 \/ minReplicas <= maxReplicas)) =>
               got = Clamped(Ceiling(nodeCount, totalPrimaries) - 1, minReplicas, maxReplicas)
        /\ trace[1] = Call(<<17, 45, 0, 1>>) => got = 1
        /\ trace[1] = Call(<<100, 45, 0, 1>>) => got = 2
        /\ trace[1] = Call(<<100, 10, 3, 1>>) => got = 3
        /\ trace[1] = Call(<<10, 5, 0, 1>>) => got = 1
        /\ trace[1] = Call(<<11, 5, 0, 1>>) => got = 2

\* A call whose quotient is not whole and lies within the limits: 5 nodes on
\* 2 primaries give 2 replicas.
C21_Witness ==
    /\ Calculated
    /\ trace[1] = Call(<<5, 2, 3, 1>>)
    /\ trace[2].n = 2

\* The copies of every shard cover the nodes: totalPrimaries * (1 + r) >=
\* nodeCount for the value r returned.
Covers == trace[1].m * (1 + trace[2].n) >= trace[1].n

Rebalanced == Len(trace) > 0 /\ trace[1].op = "Desired"

\* The positions of the events of one kind about one index.
EventsOf(op, name) == {i \in DOMAIN trace : trace[i].op = op /\ trace[i].node = <<name>>}

\* The indices the alias points to whose replica field is a number.
UnderAlias ==
    {i \in DOMAIN indices : "logs" \in indices[i].Aliases /\ Atoi(indices[i].Rep).ok}

\* C22: outside dry-run, an invocation that reaches the update loop reads the
\* replica count of every resolved index and sends a PUT for exactly those
\* whose count differs from the desired one, also after a PUT that failed; a
\* PUT that succeeds leaves the index at the desired count, one that fails
\* leaves it as it was; and in every mode the number returned is the number
\* of indices whose update returned no error.
C22_UpdatesExactlyTheDiffering ==
    Rebalanced =>
        LET desired == trace[1].n
            puts(name) == EventsOf("PutReplicas", name) \cup EventsOf("PutReplicasErr", name)
        IN
        /\ \A i \in UnderAlias :
               LET name == indices[i].Index IN
               /\ Cardinality(EventsOf("Replicas", name)) = 1
               /\ ~cfg.DebugMode =>
                      \A r \in EventsOf("Replicas", name) :
                          /\ (trace[r].n # desired) <=> (puts(name) # {})
                          /\ Cardinality(puts(name)) <= 1
                          /\ EventsOf("PutReplicas", name) # {} => Atoi(indices[i].Rep).v = desired
                          /\ EventsOf("PutReplicasErr", name) # {} => Atoi(indices[i].Rep).v = trace[r].n
        /\ modified = Cardinality({r \in DOMAIN trace :
                          /\ trace[r].op = "Replicas"
                          /\ trace[r].n # desired
                          /\ \A k \in DOMAIN trace :
                                 ~(trace[k].op = "PutReplicasErr" /\ trace[k].node = trace[r].node)})

\* The PUT for a failed, the PUT for b was sent all the same and succeeded,
\* and one modified index is returned.
C22_Witness ==
    /\ Rebalanced
    /\ EventsOf("PutReplicasErr", "a") # {}
    /\ EventsOf("PutReplicas", "b") # {}
    /\ modified = 1

(***************************************************************************)
(* Properties of filterIndices, checked under FilterSpec.                  *)
(***************************************************************************)
Filtered == pc = "filtered"

\* The names returned.
ResultNames == {trace[2].result[k].Index : k \in DOMAIN trace[2].result}

\* The open indices of the listing with a system name, and without.
OpenSystem == {indices[i].Index : i \in {j \in DOMAIN indices :
                   indices[j].Status = "open" /\ indices[j].Index[1] = "."}}

OpenOther == {indices[i].Index : i \in {j \in DOMAIN indices :
                  indices[j].Status = "open" /\ indices[j].Index[1] # "."}}

\* The names of the listing a pattern list selects.
Selected(patterns) ==
    {indices[i].Index : i \in {j \in DOMAIN indices :
        Len(patterns) = 0 \/ \E k \in DOMAIN patterns : GlobMatch(patterns[k], indices[j].Index)}}

\* C23: the result holds exactly the open indices that match some pattern,
\* all open ones when no pattern is given, without the indices whose name
\* starts with "." unless includeSystem; the pattern .* gives nothing without
\* includeSystem and exactly the open system indices with it; no closed index
\* is returned; on the full listing of the test the seven cases return 4, 6,
\* 2, 3, 2, 0 and 0 indices.
C23_FilterByPatterns ==
    Filtered =>
        LET patterns == trace[1].patterns
            includeSystem == trace[1].includeSystem
            system == <<<<".", "*">>>>
        IN
        /\ ResultNames = Selected(patterns)
                         \cap (OpenOther \cup (IF includeSystem THEN OpenSystem ELSE {}))
        /\ Len(trace[2].result) = Cardinality(ResultNames)
        /\ (patterns = system /\ ~includeSystem) => ResultNames = {}
        /\ (patterns = system /\ includeSystem) => ResultNames = OpenSystem
        /\ \A k \in DOMAIN trace[2].result : trace[2].result[k].Status = "open"
        /\ indices = TestIndices =>
               Len(trace[2].result) =
                   CASE patterns = << >> -> IF includeSystem THEN 6 ELSE 4
                     [] patterns = <<<<"l", "o", "g", "s", "-", "*">>>> -> 2
                     [] patterns = <<<<"l", "o", "g", "s", "-", "*">>, <<"m", "e", "t", "*">>>> -> 3
                     [] patterns = system -> IF includeSystem THEN 2 ELSE 0
                     [] patterns = <<<<"c", "l", "o", "s", "e", "d", "*">>>> -> 0
                     [] OTHER -> IF includeSystem THEN 6 ELSE 4

\* The system pattern without includeSystem returned nothing from the full
\* listing of the test.
C23_Witness ==
    /\ Filtered
    /\ indices = TestIndices
    /\ trace[1].patterns = <<<<".", "*">>>>
    /\ ~trace[1].includeSystem
    /\ trace[2].result = << >>

\* The primaries of the open indices the alias points to.
RECURSIVE OpenPrimaries(_)
OpenPrimaries(all) ==
    IF Len(all) = 0 THEN 0
    ELSE (IF Head(all).Status = "open" /\ "logs" \in Head(all).Aliases /\ Atoi(Head(all).Pri).ok
              THEN Atoi(Head(all).Pri).v ELSE 0)
         + OpenPrimaries(Tail(all))

\* C24: an invocation resolved through the alias counts no primaries of a
\* closed index, reads no replica count of one and sends it no PUT.
C24_ClosedIndexLeftOut ==
    Rebalanced =>
        /\ trace[1].m = OpenPrimaries(indices)
        /\ \A i \in DOMAIN indices :
               indices[i].Status = "close" =>
                   \A k \in DOMAIN trace : trace[k].node # <<indices[i].Index>>

\* What the code does instead: every index the alias points to, closed ones
\* included, is counted and brought to the desired replica count.
ClosedIndexTakenIn ==
    Rebalanced =>
        \A i \in DOMAIN indices :
            (indices[i].Status = "close" /\ "logs" \in indices[i].Aliases) =>
                EventsOf("Replicas", indices[i].Index) # {}

(***************************************************************************)
(* Properties of updateClusterSettings, checked under ExcludeSpec.         *)
(***************************************************************************)
\* The positions of the settings reads: one per call.
Reads == {i \in DOMAIN trace : trace[i].op \in {"GetSettings", "GetSettingsErr"}}

\* Both calls read the settings and returned no error.
BothCallsSucceeded ==
    /\ Cardinality(Reads) = 2
    /\ \A i \in Reads : trace[i] = Ev("GetSettings", 1, 0, NoNode)
    /\ "PutSettingsErr" \notin Ops(trace)

\* C25: when the step is called twice in succession for the same node and
\* both calls read the settings and return no error, the second call writes
\* nothing and the exclusion setting after it is the one the first call
\* left.
C25_IdempotentExclusion ==
    (pc = "called" /\ BothCallsSucceeded) =>
        LET second == CHOOSE i \in Reads : \A j \in Reads : j <= i IN
        /\ second = Len(trace)
        /\ excl = pre.excl
        /\ ~cfg.DebugMode => victim \in ExcludedNames(excl)

\* The first call appended the node to a list that held another name; the
\* second call has returned.
C25_Witness ==
    /\ pc = "called"
    /\ BothCallsSucceeded
    /\ trace[2] = Ev("PutSettings", 0, 0, victim)
    /\ Cardinality(ExcludedNames(excl)) = 2

(***************************************************************************)
(* Properties of the loop, continued; checked under Spec.                  *)
(***************************************************************************)
\* The positions of the settings calls that failed after the drain returned
\* success: the clear after the deletion, or the undrain that follows it.
FailedAfterDrain ==
    {i \in DOMAIN trace :
        /\ trace[i].op \in {"GetSettingsErr", "PutSettingsErr"}
        /\ "DrainOK" \in Ops(SubSeq(trace, 1, i))}

\* When the clear after the deletion fails, UndrainElasticsearchNode is
\* called next.
UndrainFollowsFailedClear ==
    FailedAfterDrain # {} =>
        LET i == CHOOSE k \in FailedAfterDrain : \A j \in FailedAfterDrain : k <= j
        IN IF i = Len(trace) THEN pc = "undrain"
           ELSE "UndrainReturn" \in Ops(After(i))

\* The zonal variant calls it.
ZonalReference == cfg.Zone => UndrainFollowsFailedClear

\* C26: for the same responses the regional variant issues the calls the
\* zonal variant issues and returns the same outcome: so also after a failed
\* clear of the exclusion that follows the deletion.
C26_RegionalAsZonal == ~cfg.Zone => UndrainFollowsFailedClear

\* C27: the victim is a member of the list read in the same removal
\* attempt; wherever a selection is about to be made from a non-empty list,
\* each member can be the one selected; and when the list read is empty the
\* attempt fails there: no settings read or write, no shard poll and no
\* DeleteMember follow, and the iteration ends with the error branch.
C27_VictimFromTheListRead ==
    /\ \A i \in DOMAIN trace :
           (trace[i].op = "ListMembers" /\ trace[i].n > 0) =>
               /\ trace[i].node \in pre.members
               /\ trace[i].n = Cardinality(pre.members)
               /\ victim = trace[i].node
    /\ (/\ pc = "removeNode"
        /\ members # {}
        /\ ~getMIGScalingLimits(cfg, now).fatal
        /\ targetSize - ScaleDownThreshold >= getMIGScalingLimits(cfg, now).minSize) =>
           \A m \in members : ENABLED (SelectInstanceToRemove /\ victim' = m)
    /\ \A i \in DOMAIN trace :
           trace[i].op = "NoMembers" =>
               /\ After(i) = ErrorTail
               /\ pc = "sleep"
               /\ Ops(trace) \cap {"GetSettings", "GetSettingsErr", "PutSettings", "PutSettingsErr",
                                   "CatShards", "CatShardsErr", "Delete", "DeleteErr"} = {}

\* The list read was empty while the target size allowed a removal.
C27_Witness ==
    /\ "NoMembers" \in Ops(trace)
    /\ \E i \in DOMAIN trace : trace[i].op = "GetTargetSize" /\ trace[i].n = 2
    /\ pc = "sleep"

(***************************************************************************)
(* Properties of the drain, checked under DrainSpec.                       *)
(***************************************************************************)
\* The drain returned success, or failure.
DrainReturned == pc \in {"delete", "sleep"}

\* What holds of the wait at every moment: it polls at most MaxPolls times,
\* and once the deadline has come it returns failure, never success.
WaitBounded ==
    /\ polls <= MaxPolls
    /\ \A i \in DOMAIN trace :
           trace[i].op = "Deadline" =>
               /\ "DrainOK" \notin Ops(trace)
               /\ Ops(After(i)) \cap {"CatShards", "CatShardsErr"} = {}
               /\ pc = "sleep"
               /\ Ops(After(i)) \cap {"DrainError", "DrainTimeoutError"} # {}

\* C28: every drain wait that has begun returns, with success or with
\* failure; it polls a bounded number of times; once the deadline has come
\* it makes no further poll and returns failure.
C28_DrainTerminates == []WaitBounded /\ ((pc = "wait") ~> DrainReturned)

\* The wait polled until the deadline and returned failure.
C28_Witness ==
    /\ polls = MaxPolls
    /\ "Deadline" \in Ops(trace)
    /\ pc = "sleep"

\* The DeleteMember calls of the iteration.
DeleteCalls == {i \in DOMAIN trace : trace[i].op \in {"Delete", "DeleteErr"}}

C30_OtherNodesDoNotDelay ==
    [][(/\ pc = "wait"
        /\ Len(trace') > Len(trace)
        /\ trace'[Len(trace) + 1].op = "CatShards"
        /\ victim \notin shardNodes)
       => (trace'[Len(trace) + 1].n = 0 /\ pc' = "delete")]_vars

\* What the code does: a poll ends the wait with success exactly when no
\* node whose name contains the victim's name holds a shard.
PollMatchesBySubstring ==
    [][(/\ pc = "wait"
        /\ Len(trace') > Len(trace)
        /\ trace'[Len(trace) + 1].op = "CatShards")
       => (pc' = "delete" <=> ~\E n \in shardNodes : MatchString(victim, n))]_vars

(***************************************************************************)
(* The loop with calls that may never answer.                              *)
(***************************************************************************)
\* The service the loop calls next at each place where it calls one: the
\* compute backend, the cluster settings, the metrics server. The poll of the
\* drain wait is left out: it runs under the drain deadline, which
\* DrainTimeout models.
CalledAt ==
    [floor |-> "Backend", addNode |-> "Backend", removeNode |-> "Backend",
     delete |-> "Backend", drain |-> "Cluster", clear |-> "Cluster",
     upCondition |-> "Metrics", downCondition |-> "Metrics"]

\* Backend calls that all carry a deadline.
HasDeadline_Always(service) == TRUE

\* Whether a call to the service carries a deadline: the regional functions
\* build their contexts with a 60-second timeout and the zonal ones use
\* context.Background(); the settings calls pass no context and the client's
\* transport sets no timeout; the metrics query has a 10-second timeout.
HasDeadline(service) ==
    CASE service = "Backend" -> ~cfg.Zone
      [] service = "Cluster" -> FALSE
      [] service = "Metrics" -> TRUE
      [] OTHER -> FALSE

\* The service whose call has not answered.
HungService ==
    IF pc = "hung" /\ Len(trace) > 0 THEN trace[Len(trace)].service ELSE "None"

\* The next call of the loop does not answer.
HangingCall ==
    /\ pc \in DOMAIN CalledAt
    /\ ~(pc = "delete" /\ cfg.DebugMode)
    /\ trace' = Append(trace, [op |-> "Hang", n |-> 0, m |-> 0, node |-> NoNode,
                                service |-> CalledAt[pc]])
    /\ pc' = "hung"
    /\ UNCHANGED <<cfg, rebalance, now, backend, cluster, attempt, sendFailed>>

\* The deadline of the pending call passes: the call returns an error and
\* the iteration ends on the error branch.
CallDeadline ==
    /\ pc = "hung"
    /\ HasDeadline(HungService)
    /\ trace' = trace \o <<E0("DeadlineExceeded")>> \o ErrorTail
    /\ pc' = "sleep"
    /\ UNCHANGED <<cfg, rebalance, now, backend, cluster, attempt>>
    /\ Sends

\* The steps of the loop itself.
LoopStep ==
    \/ CheckMIGMinimumSize
    \/ GetUpCondition
    \/ AddNodeToMIG
    \/ GetDownCondition
    \/ SelectInstanceToRemove
    \/ UpdateClusterSettings
    \/ PollShards
    \/ DrainTimeout
    \/ DeleteInstance
    \/ ClearClusterSettings
    \/ UndrainElasticsearchNode
    \/ NextIteration

\* The loop starts on a full group, without overrides.
HangInit ==
    /\ Init
    /\ pc = "floor"
    /\ cfg.AdvancedCustomScalingConfiguration = << >>
    /\ members = InstanceNames
    /\ excl = NoSetting

HangNext ==
    \/ LoopStep
    \/ HangingCall
    \/ CallDeadline
    \/ Tick
    \/ CreateInstance
    \/ AllocateShard
    \/ EvacuateNode

\* The process keeps running its loop, a sleep ends, a deadline that is set
\* passes; nothing is assumed of a call that hangs.
HangSpec ==
    HangInit /\ [][HangNext]_vars /\ WF_vars(LoopStep) /\ WF_vars(CallDeadline)

\* C31: from every state the loop eventually begins a new iteration, even if
\* a call to the compute backend or the cluster service never answers.
C31_NoCallStallsTheLoop == []<>(pc = "floor")

\* What the code gives: the loop begins iterations forever unless it stays
\* for ever in a call that carries no deadline.
StallsOnlyWithoutDeadline ==
    []<>(pc = "floor") \/ <>[](pc = "hung" /\ ~HasDeadline(HungService))

(***************************************************************************)
(* Failure paths of the removal, checked under Spec.                       *)
(***************************************************************************)
\* DrainElasticsearchNode returned an error in this iteration.
DrainFailed == Ops(trace) \cap {"DrainError", "DrainTimeoutError"} # {}

\* C33: after a drain that returned a failure, the victim is not in the
\* exclusion list unless it was there before the drain began.
C33_FailedDrainLeavesNoExclusion ==
    (DrainFailed /\ victim \in ExcludedNames(excl)) => victim \in ExcludedNames(pre.excl)

\* What the code gives: a failed drain leaves the victim excluded only after
\* a poll that failed, or after a deadline whose clear failed or read a
\* response without the exclusion list.
ExclusionLeftOnlyByFailedPollOrClear ==
    (DrainFailed /\ victim \in ExcludedNames(excl) /\ victim \notin ExcludedNames(pre.excl)) =>
        \/ "CatShardsErr" \in Ops(trace)
        \/ "Deadline" \in Ops(trace) /\ "DrainError" \in Ops(trace)
        \/ \E i, j \in DOMAIN trace :
               /\ i < j
               /\ trace[i].op = "Deadline"
               /\ trace[j].op = "GetSettings" /\ trace[j].n = 0

\* The iteration is over and a DeleteMember call succeeded in it.
DeletedInIteration == pc = "sleep" /\ "Delete" \in Ops(trace)

\* C34: an iteration that ends on the error branch (retry interval) deleted
\* no member, and an iteration in which a DeleteMember call succeeded ends
\* with the removal notification, when a notifier is configured, and the
\* scale-down cooldown.
C34_ErrorMeansNothingDeleted ==
    /\ (pc = "sleep" /\ "SleepRetry" \in Ops(trace)) => "Delete" \notin Ops(trace)
    /\ DeletedInIteration =>
           /\ "SleepScaleDown" \in Ops(trace)
           /\ cfg.WebhookURL => "NotifyRemoved" \in Ops(trace)

\* What the code gives: an iteration that deleted a member ends on the error
\* branch exactly when the clear of the exclusion that follows the deletion
\* failed, and on the success path otherwise.
DeletedAndErrorOnlyAfterFailedClear ==
    DeletedInIteration =>
        LET d == CHOOSE i \in DOMAIN trace : trace[i].op = "Delete"
            failedClear == \E j \in DOMAIN trace :
                               j > d /\ trace[j].op \in {"GetSettingsErr", "PutSettingsErr"}
        IN IF failedClear
               THEN "SleepRetry" \in Ops(trace) /\ "NotifyRemoved" \notin Ops(trace)
           ELSE "SleepScaleDown" \in Ops(trace) /\ "SleepRetry" \notin Ops(trace)

(***************************************************************************)
(* The loop under overrides that raise the floor above the base limits.    *)
(***************************************************************************)
\* An override on day 1, strictly between instants 0 and 2, that sets
\* minSize 3 and sets maxSize to the value given, 0 leaving it unset.
FloorThree(maxSize) ==
    [Days |-> <<"1">>, HoursUTC |-> <<[ok |-> TRUE, t |-> 0], [ok |-> TRUE, t |-> 2]>>,
     MinSize |-> 3, MaxSize |-> maxSize, ScaleUpThreshold |-> 0]

\* Fully configured zonal groups, not in dry-run, base limits 1..2 with step
\* 1, with one override: floor 3 with the maximum unset, or floor 3 with
\* maximum 4.
ResizeConfigs ==
    [DebugMode : {FALSE}, Zone : {TRUE}, ElasticsearchURL : {TRUE},
     WebhookURL : {TRUE}, MinSize : {1}, MaxSize : {2}, ScaleUpThreshold : {1},
     AdvancedCustomScalingConfiguration : {<<FloorThree(0)>>, <<FloorThree(4)>>}]

ResizeInit ==
    /\ cfg \in ResizeConfigs
    /\ now = StartTime
    /\ members \in SUBSET InstanceNames
    /\ targetSize = Cardinality(members)
    /\ excl = NoSetting
    /\ shardNodes \in SUBSET members
    /\ pc \in {"floor", "rebalance"}
    /\ indices \in IndexSets
    /\ modified = 0
    /\ victim = NoNode
    /\ desiredSize = 0
    /\ minSize = 0
    /\ polls = 0
    /\ pre = NoAttempt
    /\ sendFailed = FALSE
    /\ trace = << >>

ResizeSpec == ResizeInit /\ [][Next]_vars

\* The Resize calls of the iteration.
ResizeCalls == {i \in DOMAIN trace : trace[i].op = "Resize"}

\* C35: every Resize the controller issues targets a size between the
\* effective minSize and the effective maxSize resolved by the call that
\* issues it.
C35_ResizeWithinLimits ==
    \A i \in ResizeCalls :
        /\ i > 1
        /\ trace[i - 1].op = "Limits"
        /\ trace[i - 1].n <= trace[i].n
        /\ trace[i].n <= trace[i - 1].m

\* What the code gives: a Resize targets either the effective minSize, when
\* the size read is below it, or the size read plus the step, when that is
\* at most the effective maxSize.
ResizeToFloorOrOneStep ==
    \A i \in ResizeCalls :
        /\ i > 2
        /\ trace[i - 1].op = "Limits"
        /\ trace[i - 2].op = "GetTargetSize"
        /\ \/ trace[i].n = trace[i - 1].n /\ trace[i - 2].n < trace[i - 1].n
           \/ trace[i].n = trace[i - 2].n + trace[i - 1].up /\ trace[i].n <= trace[i - 1].m

(***************************************************************************)
(* The policy each step of an iteration applies, checked under Spec.       *)
(***************************************************************************)
\* The limits resolved in this iteration, in the order of the calls.
LimitsSeen == {i \in DOMAIN trace : trace[i].op = "Limits"}

\* The limits in force at the current clock reading: those of the first
\* listed override that applies, or the base ones.
InForce ==
    LET applying == {i \in DOMAIN Listed : Applies(Listed[i])} IN
    IF applying = {} THEN Base
    ELSE Inherited(Listed[CHOOSE i \in applying : \A j \in applying : i <= j])

\* C36, as stated: the floor check and the scale-up or scale-down of one
\* iteration apply the same limits.
C36_Original ==
    \A i, j \in LimitsSeen :
        trace[i].n = trace[j].n /\ trace[i].m = trace[j].m /\ trace[i].up = trace[j].up

\* C36, amended: each step of an iteration (floor check, scale-up,
\* scale-down) resolves the policy once, against the clock reading at the
\* time of its own call, and applies the limits in force at that reading.
C36_EachStepResolvesAtItsOwnCall ==
    [][\A k \in (Len(trace) + 1)..Len(trace') :
           trace'[k].op = "Limits" =>
               [n |-> trace'[k].n, m |-> trace'[k].m, up |-> trace'[k].up] = InForce]_vars

\* An iteration whose floor check applied the base floor and whose later
\* step, after the window opened, applied the raised one.
C36_Witness ==
    \E i, j \in LimitsSeen :
        /\ i < j
        /\ trace[i].n = cfg.MinSize
        /\ trace[j].n > cfg.MinSize
        /\ Ops(trace) \cap {"Resize", "Delete"} # {}

(***************************************************************************)
(* Scale-up on its own: the up-condition is true in every iteration and    *)
(* every call succeeds.                                                    *)
(***************************************************************************)
\* The largest maxSize and the largest step of the configurations.
MaxGroup == 4

MaxStep == 3

\* Fixed policies: minSize 1, maxSize MaxGroup, every step, no override.
ScaleUpConfigs ==
    [DebugMode : BOOLEAN, Zone : BOOLEAN, ElasticsearchURL : {FALSE},
     WebhookURL : BOOLEAN, MinSize : {1}, MaxSize : {MaxGroup}, ScaleUpThreshold : 1..MaxStep,
     AdvancedCustomScalingConfiguration : {<< >>}]

ScaleUpInit ==
    /\ cfg \in ScaleUpConfigs
    /\ now = StartTime
    /\ members \in SUBSET InstanceNames
    /\ targetSize \in Cardinality(members)..MaxGroup
    /\ excl = NoSetting
    /\ shardNodes = {}
    /\ pc = "floor"
    /\ indices \in IndexSets
    /\ modified = 0
    /\ victim = NoNode
    /\ desiredSize = 0
    /\ minSize = 0
    /\ polls = 0
    /\ pre = NoAttempt
    /\ sendFailed = FALSE
    /\ trace = << >>

\* No call of the iteration failed and the up-condition was not false.
Nominal ==
    /\ Ops(trace) \cap {"GetTargetSizeErr", "ResizeErr", "UpConditionErr"} = {}
    /\ \A i \in DOMAIN trace : trace[i].op = "UpCondition" => trace[i].n = 1

FloorCheckSucceeds == CheckMIGMinimumSize /\ Nominal'

UpConditionTrue == GetUpCondition /\ Nominal'

ScaleUpSucceeds == AddNodeToMIG /\ Nominal'

ScaleUpLoop ==
    \/ FloorCheckSucceeds
    \/ UpConditionTrue
    \/ ScaleUpSucceeds
    \/ NextIteration

ScaleUpNext ==
    \/ ScaleUpLoop
    \/ CreateInstance

\* The loop keeps running.
ScaleUpSpec == ScaleUpInit /\ [][ScaleUpNext]_vars /\ WF_vars(ScaleUpLoop)

Others(e) ==
    IF CurrentExcludes(e) = EmptyStr THEN << >>
    ELSE SelectSeq(Split(CurrentExcludes(e)), LAMBDA n : n # victim)

\* The step that is taken read the settings and got them.
ReadTheSettings ==
    \E k \in (Len(trace) + 1)..Len(trace') : trace'[k].op = "GetSettings" /\ trace'[k].n = 1

\* C38: a step that changes the exclusion setting keeps every name other
\* than the victim, in the same order, adds no other name, and writes null
\* rather than an empty string when no name remains.
C38_OnlyTheVictimsEntryChanges ==
    [][excl' # excl => (Others(excl') = Others(excl) /\ excl' # Setting(EmptyStr))]_vars

\* What the code gives: the same, for the steps whose settings read returned
\* the settings.
OnlyTheVictimsEntryChangesOnceRead ==
    [][(excl' # excl /\ ReadTheSettings) =>
           (Others(excl') = Others(excl) /\ excl' # Setting(EmptyStr))]_vars

(***************************************************************************)
(* RebalanceShards over clusters with more nodes than shard copies.        *)
(***************************************************************************)
\* The number of data nodes of the cluster.
MaxClusterNodes == 4

ClusterNodes == {<<"n", Digits[k + 1]>> : k \in 1..MaxClusterNodes}

\* Listings with numeric counts: a under the alias with 1 or 2 primaries
\* and 0 or 1 replica; b with 1 primary and 0 or 2 replicas, under the alias
\* or not.
CopyGroups ==
    {<<Index("a", "open", pa, ra, {"logs"}), Index("b", "open", <<"1">>, rb, ab)>> :
        pa \in {<<"1">>, <<"2">>}, ra \in {<<"0">>, <<"1">>},
        rb \in {<<"0">>, <<"2">>}, ab \in {{"logs"}, {}}}

CopiesInit ==
    /\ cfg \in {c \in Configs : c.Zone /\ c.ElasticsearchURL /\ c.WebhookURL
                                /\ c.AdvancedCustomScalingConfiguration = << >>}
    /\ now = StartTime
    /\ members = {}
    /\ targetSize = 0
    /\ excl = NoSetting
    /\ shardNodes \in SUBSET ClusterNodes
    /\ pc = "rebalance"
    /\ indices \in CopyGroups
    /\ modified = 0
    /\ victim = NoNode
    /\ desiredSize = 0
    /\ minSize = 0
    /\ polls = 0
    /\ pre = NoAttempt
    /\ sendFailed = FALSE
    /\ trace = << >>

CopiesNext == RebalanceShards

CopiesSpec == CopiesInit /\ [][CopiesNext]_vars

\* Every primary and replica count of the listing is a number.
NumericListing ==
    \A i \in DOMAIN indices : Atoi(indices[i].Pri).ok /\ Atoi(indices[i].Rep).ok

\* The last invocation raised the replica count of an index.
RaisedAnIndex ==
    /\ Rebalanced
    /\ \E k \in DOMAIN trace, r \in DOMAIN trace :
          /\ trace[k].op = "PutReplicas" /\ trace[r].op = "Replicas"
          /\ trace[k].node = trace[r].node /\ trace[k].n > trace[r].n

\* The largest replica count read by the last invocation.
LargestRead ==
    LET read == {trace[i].n : i \in {k \in DOMAIN trace : trace[k].op = "Replicas"}}
    IN IF read = {} THEN 0 ELSE CHOOSE r \in read : \A q \in read : q <= r

\* C39: an invocation never sends an index a replica count above the larger
\* of minReplicas and the largest replica count it read among the resolved
\* indices; and an invocation that follows one whose updates all succeeded,
\* with the same desired count, sends no update, and outside dry-run returns
\* zero.  Stated for listings whose counts are all numbers.
C39_NoRaiseAboveLargest ==
    /\ [][\A k \in DOMAIN trace' :
              (/\ trace'[k].op \in {"PutReplicas", "PutReplicasErr"}
               /\ NumericListing) =>
                  \/ trace'[k].n <= Rebalancing.MinReplicas
                  \/ \E r \in DOMAIN trace' : trace'[r].op = "Replicas" /\ trace'[k].n <= trace'[r].n]_vars
    /\ [][(/\ RebalanceShards
           /\ Rebalanced
           /\ "PutReplicasErr" \notin Ops(trace)
           /\ Len(trace') > 0 /\ trace'[1].op = "Desired"
           /\ trace'[1].n = trace[1].n)
          => (/\ Ops(trace') \cap {"PutReplicas", "PutReplicasErr"} = {}
              /\ indices' = indices
              /\ ~cfg.DebugMode => modified' = 0)]_vars

\* A second invocation found nothing to do after one whose updates
\* succeeded: index b, listed with 0 or 2 replicas at the start, is read at
\* 1 replica like index a, the desired count is 1 and nothing was sent.
C39_Witness ==
    /\ Rebalanced
    /\ ~cfg.DebugMode
    /\ NumericListing
    /\ trace[1].n = 1
    /\ LargestRead = 1
    /\ \A i \in DOMAIN indices : "logs" \in indices[i].Aliases /\ indices[i].Rep = <<"1">>
    /\ Cardinality(shardNodes) = MaxClusterNodes
    /\ Ops(trace) \cap {"PutReplicas", "PutReplicasErr"} = {}
    /\ modified = 0

====
